---- MODULE Spec2Model ----
(***************************************************************************)
(* Model of the DeltaNEAR derivatives-intent canonicalizer                 *)
(* (contracts/near-intents-derivatives/src/canonicalization.rs).           *)
(*                                                                         *)
(* A string is a sequence of one-character strings, so that trim, case     *)
(* folding, prefix tests and splitting are computed character by           *)
(* character.  A JSON value (serde_json::Value) is a record [t, v] with    *)
(* the tag t in {"null","bool","number","string","array","object"}; an     *)
(* object is the sequence of its [k, v] members in iteration order, the    *)
(* keys being distinct.                                                    *)
(***************************************************************************)
EXTENDS Integers, Sequences, FiniteSets, TLC

VARIABLES
    pc,        \* position of the caller: "ready" | "called" | "idle"
    doc,       \* the intent document handed to canonicalize_intent
    result,    \* what the latest canonicalize_intent call returned
    digest,    \* what compute_intent_hash derived from it (or the panic)
    history,   \* the calls made so far: their documents, results and digests
    decIn,     \* the value handed to canonicalize_decimal
    decSite,   \* the (min, max, precision) it is called with
    decOut,    \* what canonicalize_decimal returned
    callee,    \* the primitive function called on its own, "none" if none is
    arg,       \* the argument it is called with
    ret,       \* what it returned
    contract,  \* the fields of the deployed Contract (lib.rs)
    block_timestamp,  \* env::block_timestamp() of the current block
    call,      \* the latest contract call: method, predecessor, arguments
    outcome,   \* what that call returned, or the message it panicked with
    intent_hash_of  \* compute_intent_hash on each intent in use, computed once

vars == <<pc, doc, result, digest, history, decIn, decSite, decOut, callee, arg, ret,
          contract, block_timestamp, call, outcome, intent_hash_of>>

(***************************************************************************)
(* Characters and strings                                                  *)
(***************************************************************************)

\* The printable ASCII characters in code order, 32 to 126 (code 96, the grave
\* accent, is written "GRAVE").
Ascii == <<" ","!","\"","#","$","%","&","'","(",")","*","+",",","-",".","/","0","1","2","3","4","5","6","7","8","9",":",";","<","=",">","?","@","A","B","C","D","E","F","G","H","I","J","K","L","M","N","O","P","Q","R","S","T","U","V","W","X","Y","Z","[","\\","]","^","_","GRAVE","a","b","c","d","e","f","g","h","i","j","k","l","m","n","o","p","q","r","s","t","u","v","w","x","y","z","{","|","}","~">>

AsciiSet == {Ascii[i] : i \in 1..Len(Ascii)} \cup {"\t", "\n"}

\* Byte value of a character (the order str::cmp and sort() use).
CharCode == [c \in AsciiSet |->
               IF c = "\t" THEN 9 ELSE IF c = "\n" THEN 10
               ELSE 31 + (CHOOSE i \in 1..Len(Ascii) : Ascii[i] = c)]

\* char::to_lowercase / char::to_uppercase on ASCII.
LowerChar == [c \in AsciiSet |->
                IF CharCode[c] >= 65 /\ CharCode[c] <= 90
                THEN Ascii[CharCode[c] + 32 - 31] ELSE c]

UpperChar == [c \in AsciiSet |->
                IF CharCode[c] >= 97 /\ CharCode[c] <= 122
                THEN Ascii[CharCode[c] - 32 - 31] ELSE c]

IsWhitespace(c) == c \in {" ", "\t", "\n"}

IsDigit(c) == c \in {"0","1","2","3","4","5","6","7","8","9"}

DigitChars == <<"0","1","2","3","4","5","6","7","8","9">>

DigitVal(c) == CharCode[c] - 48

\* A lowercasing that changes nothing.
KeepCase(s) == s

\* str::to_lowercase, str::to_uppercase
ToLowercase(s) == [i \in 1..Len(s) |-> LowerChar[s[i]]]

ToUppercase(s) == [i \in 1..Len(s) |-> UpperChar[s[i]]]

RECURSIVE TrimStart(_)
TrimStart(s) ==
    IF s = <<>> THEN <<>>
    ELSE IF IsWhitespace(Head(s)) THEN TrimStart(Tail(s)) ELSE s

RECURSIVE TrimEnd(_)
TrimEnd(s) ==
    IF s = <<>> THEN <<>>
    ELSE IF IsWhitespace(s[Len(s)]) THEN TrimEnd(SubSeq(s, 1, Len(s) - 1)) ELSE s

\* str::trim
Trim(s) == TrimEnd(TrimStart(s))

\* str::trim_end_matches(c)
RECURSIVE TrimEndMatches(_, _)
TrimEndMatches(s, c) ==
    IF s = <<>> THEN <<>>
    ELSE IF s[Len(s)] = c THEN TrimEndMatches(SubSeq(s, 1, Len(s) - 1), c) ELSE s

\* A contains that finds nothing.
ContainsNever(s, c) == FALSE

\* str::contains(char)
Contains(s, c) == \E i \in 1..Len(s) : s[i] = c

\* str::starts_with(&str), str::ends_with(char)
StartsWith(s, p) == Len(s) >= Len(p) /\ SubSeq(s, 1, Len(p)) = p

EndsWith(s, c) == Len(s) >= 1 /\ s[Len(s)] = c

\* str::find(char): the index (from 1) of the first occurrence, 0 when absent.
Find(s, c) ==
    IF Contains(s, c) THEN CHOOSE i \in 1..Len(s) : s[i] = c /\ \A j \in 1..(i - 1) : s[j] # c
    ELSE 0

\* Ord for str: byte-wise lexicographic order, a proper prefix first.
RECURSIVE StrLess(_, _)
StrLess(a, b) ==
    IF b = <<>> THEN FALSE
    ELSE IF a = <<>> THEN TRUE
    ELSE IF Head(a) = Head(b) THEN StrLess(Tail(a), Tail(b))
    ELSE CharCode[Head(a)] < CharCode[Head(b)]

\* Insertion of one string into a sorted sequence of strings (stable).
RECURSIVE InsertSorted(_, _)
InsertSorted(sorted, x) ==
    IF sorted = <<>> THEN <<x>>
    ELSE IF StrLess(x, Head(sorted)) THEN <<x>> \o sorted
    ELSE <<Head(sorted)>> \o InsertSorted(Tail(sorted), x)

\* A sort that leaves the sequence as it is.
KeepOrder(xs) == xs

\* Vec<&str>::sort
RECURSIVE SortStrings(_)
SortStrings(xs) ==
    IF xs = <<>> THEN <<>>
    ELSE InsertSorted(SortStrings(SubSeq(xs, 1, Len(xs) - 1)), xs[Len(xs)])

\* A dedup that removes nothing.
KeepDuplicates(xs) == xs

\* Vec::dedup: removes consecutive repeated elements.
RECURSIVE Dedup(_)
Dedup(xs) ==
    IF Len(xs) <= 1 THEN xs
    ELSE IF xs[1] = xs[2] THEN Dedup(Tail(xs))
    ELSE <<xs[1]>> \o Dedup(Tail(xs))

\* u64 to_string
RECURSIVE NatToString(_)
NatToString(n) ==
    IF n < 10 THEN <<DigitChars[n + 1]>>
    ELSE NatToString(n \div 10) \o <<DigitChars[(n % 10) + 1]>>

(***************************************************************************)
(* JSON values (serde_json::Value) and results (Result<Value, String>)     *)
(***************************************************************************)

Null == [t |-> "null", v |-> 0]

Bool(b) == [t |-> "bool", v |-> b]

Str(s) == [t |-> "string", v |-> s]

Arr(xs) == [t |-> "array", v |-> xs]

Obj(members) == [t |-> "object", v |-> members]

\* serde_json::Number: PosInt(u64), NegInt(i64) or Float(f64).  A float is kept
\* as the text Number::to_string prints for it.
PosInt(n) == [t |-> "number", v |-> [k |-> "posint", i |-> n, s |-> <<>>]]

NegInt(n) == [t |-> "number", v |-> [k |-> "negint", i |-> n, s |-> <<>>]]

Float(text) == [t |-> "number", v |-> [k |-> "float", i |-> 0, s |-> text]]

\* Number::to_string
NumberToString(n) ==
    IF n.k = "posint" THEN NatToString(n.i)
    ELSE IF n.k = "negint" THEN <<"-">> \o NatToString(0 - n.i)
    ELSE n.s

\* Map::keys, Map::contains_key, Map::get on an object's member sequence.
Keys(members) == [i \in 1..Len(members) |-> members[i].k]

HasKey(members, key) == \E i \in 1..Len(members) : members[i].k = key

Get(members, key) == members[CHOOSE i \in 1..Len(members) : members[i].k = key].v

\* Option<&Value>::and_then(as_str / as_object / as_array / as_u64) is Some
IsStrAt(members, key) == HasKey(members, key) /\ Get(members, key).t = "string"

IsObjAt(members, key) == HasKey(members, key) /\ Get(members, key).t = "object"

IsArrAt(members, key) == HasKey(members, key) /\ Get(members, key).t = "array"

IsU64At(members, key) ==
    HasKey(members, key) /\ Get(members, key).t = "number" /\ Get(members, key).v.k = "posint"

\* BTreeMap::insert followed by into_iter().collect(): the members ordered by key.
RECURSIVE BTreeInsert(_, _, _)
BTreeInsert(members, key, val) ==
    IF members = <<>> THEN <<[k |-> key, v |-> val]>>
    ELSE IF Head(members).k = key THEN <<[k |-> key, v |-> val]>> \o Tail(members)
    ELSE IF StrLess(key, Head(members).k) THEN <<[k |-> key, v |-> val]>> \o members
    ELSE <<Head(members)>> \o BTreeInsert(Tail(members), key, val)

\* Ok(value) and Err(message): the message is its fixed text and the text
\* formatted into it.
Ok(val) == [ok |-> TRUE, val |-> val, err |-> <<>>]

Err(msg, detail) == [ok |-> FALSE, val |-> Null, err |-> <<msg, detail>>]

(***************************************************************************)
(* f64: str::parse::<f64>, comparison, floor and formatting.               *)
(* A finite value is 0.mant * 10^e10 with mant a digit string without      *)
(* leading or trailing zero (empty for zero).  Decimal literals of at most *)
(* 15 significant digits are represented exactly by this, because parse    *)
(* and shortest round-trip formatting of an f64 are exact on them; every   *)
(* literal of the model is that short.                                     *)
(***************************************************************************)

F64Nan == [cls |-> "nan", neg |-> FALSE, mant |-> <<>>, e10 |-> 0]

F64Inf(neg) == [cls |-> "inf", neg |-> neg, mant |-> <<>>, e10 |-> 0]

F64Err == [cls |-> "err", neg |-> FALSE, mant |-> <<>>, e10 |-> 0]

\* Largest finite f64, 1.7976931348623157e308, as 0.mant * 10^309.
F64MaxMant == <<"1","7","9","7","6","9","3","1","3","4","8","6","2","3","1","5","7">>

RECURSIVE DigitPrefixLen(_)
DigitPrefixLen(s) ==
    IF s = <<>> THEN 0
    ELSE IF IsDigit(Head(s)) THEN 1 + DigitPrefixLen(Tail(s)) ELSE 0

RECURSIVE LeadingZeros(_)
LeadingZeros(s) ==
    IF s = <<>> THEN 0
    ELSE IF Head(s) = "0" THEN 1 + LeadingZeros(Tail(s)) ELSE 0

\* The exponent's digits as a number, saturating.
RECURSIVE DigitsToNat(_, _)
DigitsToNat(s, acc) ==
    IF s = <<>> THEN acc
    ELSE IF acc >= 10000 THEN 10000
    ELSE DigitsToNat(Tail(s), acc * 10 + DigitVal(Head(s)))

\* The value ip.fp * 10^ex, rounded to f64's range.
F64Finite(neg, ip, fp, ex) ==
    LET digits == ip \o fp
        lz     == LeadingZeros(digits)
        mant   == TrimEndMatches(SubSeq(digits, lz + 1, Len(digits)), "0")
        e10    == Len(ip) - lz + ex
    IN  IF mant = <<>> \/ e10 < 0 - 323
        THEN [cls |-> "fin", neg |-> neg, mant |-> <<>>, e10 |-> 0]
        ELSE IF e10 > 309 \/ (e10 = 309 /\ StrLess(F64MaxMant, mant))
        THEN F64Inf(neg)
        ELSE [cls |-> "fin", neg |-> neg, mant |-> mant, e10 |-> e10]

\* <f64 as FromStr>::from_str: [sign] (inf | infinity | nan | number), the
\* words in any letter case, number = digits [. digits] [(e|E) [sign] digits]
\* with at least one digit before the exponent; no whitespace.  The parser
\* reads the text from the left, one operator per part.

\* The exponent's value: exDigits must be a non-empty run of digits.
ParseExpValue(neg, ip, fp, exNeg, exDigits) ==
    IF exDigits = <<>> \/ DigitPrefixLen(exDigits) # Len(exDigits) THEN F64Err
    ELSE F64Finite(neg, ip, fp,
                   IF exNeg THEN 0 - DigitsToNat(exDigits, 0)
                   ELSE DigitsToNat(exDigits, 0))

\* What follows the mantissa: nothing, or (e|E) [sign] digits.
ParseExponent(neg, ip, fp, afterFrac) ==
    IF afterFrac = <<>> THEN F64Finite(neg, ip, fp, 0)
    ELSE IF afterFrac[1] \notin {"e", "E"} THEN F64Err
    ELSE IF Len(afterFrac) = 1 THEN F64Err
    ELSE ParseExpValue(neg, ip, fp, afterFrac[2] = "-",
                       IF afterFrac[2] \in {"+", "-"}
                       THEN SubSeq(afterFrac, 3, Len(afterFrac))
                       ELSE Tail(afterFrac))

\* The mantissa ip.fp needs at least one digit.
ParseMantissa(neg, ip, fp, afterFrac) ==
    IF Len(ip) + Len(fp) = 0 THEN F64Err
    ELSE ParseExponent(neg, ip, fp, afterFrac)

\* The digits after the decimal point.
ParseFracDigits(neg, ip, afterDot, fpLen) ==
    ParseMantissa(neg, ip, SubSeq(afterDot, 1, fpLen),
                  SubSeq(afterDot, fpLen + 1, Len(afterDot)))

\* What follows the integer digits: a decimal point and digits, or not.
ParseFraction(neg, ip, afterInt) ==
    IF afterInt # <<>> /\ afterInt[1] = "."
    THEN ParseFracDigits(neg, ip, Tail(afterInt), DigitPrefixLen(Tail(afterInt)))
    ELSE ParseMantissa(neg, ip, <<>>, afterInt)

ParseIntDigits(neg, rest, ipLen) ==
    ParseFraction(neg, SubSeq(rest, 1, ipLen), SubSeq(rest, ipLen + 1, Len(rest)))

\* The text after the sign: one of the special words, or a number.
ParseUnsigned(neg, rest, low) ==
    IF rest = <<>> THEN F64Err
    ELSE IF low = <<"n","a","n">> THEN F64Nan
    ELSE IF low = <<"i","n","f">> \/ low = <<"i","n","f","i","n","i","t","y">>
    THEN F64Inf(neg)
    ELSE ParseIntDigits(neg, rest, DigitPrefixLen(rest))

ParseSigned(neg, rest) == ParseUnsigned(neg, rest, ToLowercase(rest))

ParseF64(s) ==
    IF s = <<>> THEN F64Err
    ELSE ParseSigned(s[1] = "-", IF s[1] \in {"+", "-"} THEN Tail(s) ELSE s)

F64IsZero(x) == x.cls = "fin" /\ x.mant = <<>>

\* a < b on magnitudes of finite values
MagLess(a, b) ==
    IF b.mant = <<>> THEN FALSE
    ELSE IF a.mant = <<>> THEN TRUE
    ELSE a.e10 < b.e10 \/ (a.e10 = b.e10 /\ StrLess(a.mant, b.mant))

\* a < b for f64 (false when either is NaN; -0.0 and 0.0 are equal)
F64Less(a, b) ==
    IF a.cls = "nan" \/ b.cls = "nan" THEN FALSE
    ELSE IF a.cls = "inf" THEN a.neg /\ ~(b.cls = "inf" /\ b.neg)
    ELSE IF b.cls = "inf" THEN ~b.neg
    ELSE IF a.neg /\ ~b.neg THEN ~(F64IsZero(a) /\ F64IsZero(b))
    ELSE IF ~a.neg /\ b.neg THEN FALSE
    ELSE IF a.neg THEN MagLess(b, a)
    ELSE MagLess(a, b)

\* parsed == parsed.floor()
F64IsIntegral(x) ==
    x.cls = "inf" \/ (x.cls = "fin" /\ Len(x.mant) <= x.e10) \/ F64IsZero(x)

Zeros(n) == [i \in 1..n |-> "0"]

F64Sign(x) == IF x.neg THEN <<"-">> ELSE <<>>

\* format!("{:.0}", x) of a value without fractional part
FormatFixed0(x) ==
    IF x.cls = "nan" THEN <<"N","a","N">>
    ELSE IF x.cls = "inf" THEN F64Sign(x) \o <<"i","n","f">>
    ELSE IF x.mant = <<>> THEN F64Sign(x) \o <<"0">>
    ELSE F64Sign(x) \o x.mant \o Zeros(x.e10 - Len(x.mant))

\* A formatting that drops the fractional digits.
FormatTruncated(x) ==
    IF x.cls # "fin" THEN <<"N","a","N">>
    ELSE IF x.e10 <= 0 THEN <<"0">>
    ELSE SubSeq(x.mant, 1, x.e10)

\* format!("{}", x): the shortest digits that read back as x, never an exponent
FormatDisplay(x) ==
    IF x.cls = "nan" THEN <<"N","a","N">>
    ELSE IF x.cls = "inf" THEN F64Sign(x) \o <<"i","n","f">>
    ELSE IF x.mant = <<>> THEN F64Sign(x) \o <<"0">>
    ELSE IF Len(x.mant) <= x.e10 THEN F64Sign(x) \o x.mant \o Zeros(x.e10 - Len(x.mant))
    ELSE IF x.e10 <= 0 THEN F64Sign(x) \o <<"0", ".">> \o Zeros(0 - x.e10) \o x.mant
    ELSE F64Sign(x) \o SubSeq(x.mant, 1, x.e10) \o <<".">>
                    \o SubSeq(x.mant, x.e10 + 1, Len(x.mant))

(***************************************************************************)
(* Canonicalizer::canonicalize_decimal                                     *)
(***************************************************************************)

\* canonicalize_decimal from the range check on, the text parsed.
DecimalFromParsed(s, parsed, min_val, max_val, precision) ==
    IF parsed.cls = "err"
    THEN Err("Invalid decimal", s)
    ELSE IF F64Less(parsed, min_val) \/ F64Less(max_val, parsed)
    THEN Err("Value out of range", s)
    ELSE IF Find(s, ".") # 0 /\ Len(s) - Find(s, ".") > precision
    THEN Err("Value exceeds decimal places", s)
    ELSE IF F64IsZero(parsed) THEN Ok(Str(<<"0">>))
    ELSE IF F64IsIntegral(parsed) THEN Ok(Str(FormatFixed0(parsed)))
    ELSE Ok(Str(TrimEndMatches(TrimEndMatches(FormatDisplay(parsed), "0"), ".")))

\* canonicalize_decimal on the text s of the value.
DecimalFromText(s, min, max, precision) ==
    IF Contains(s, "e") \/ Contains(s, "E")
    THEN Err("Scientific notation not allowed", s)
    ELSE IF Len(s) > 1 /\ StartsWith(s, <<"0">>) /\ ~StartsWith(s, <<"0", ".">>)
    THEN Err("Leading zeros not allowed", s)
    ELSE IF StartsWith(s, <<"+">>)
    THEN Err("Positive sign not allowed", s)
    ELSE IF StartsWith(s, <<"-">>)
    THEN Err("Negative values not allowed", s)
    ELSE DecimalFromParsed(s, ParseF64(s), ParseF64(min), ParseF64(max), precision)

CanonicalizeDecimal(value, min, max, precision) ==
    IF value.t = "string" THEN DecimalFromText(Trim(value.v), min, max, precision)
    ELSE IF value.t = "number"
    THEN DecimalFromText(NumberToString(value.v), min, max, precision)
    ELSE Err("Decimal value must be string or number", <<>>)

(***************************************************************************)
(* Key names and fixed strings of the schema                               *)
(***************************************************************************)

\* The key names of the schema.
K == [version |-> <<"v","e","r","s","i","o","n">>,
      intent_type |-> <<"i","n","t","e","n","t","_","t","y","p","e">>,
      derivatives |-> <<"d","e","r","i","v","a","t","i","v","e","s">>,
      signer_id |-> <<"s","i","g","n","e","r","_","i","d">>,
      deadline |-> <<"d","e","a","d","l","i","n","e">>,
      nonce |-> <<"n","o","n","c","e">>,
      collateral |-> <<"c","o","l","l","a","t","e","r","a","l">>,
      constraints |-> <<"c","o","n","s","t","r","a","i","n","t","s">>,
      instrument |-> <<"i","n","s","t","r","u","m","e","n","t">>,
      leverage |-> <<"l","e","v","e","r","a","g","e">>,
      option |-> <<"o","p","t","i","o","n">>,
      side |-> <<"s","i","d","e">>,
      size |-> <<"s","i","z","e">>,
      symbol |-> <<"s","y","m","b","o","l">>,
      kind |-> <<"k","i","n","d">>,
      strike |-> <<"s","t","r","i","k","e">>,
      expiry |-> <<"e","x","p","i","r","y">>,
      max_slippage_bps |-> <<"m","a","x","_","s","l","i","p","p","a","g","e","_","b","p","s">>,
      max_funding_bps_8h |-> <<"m","a","x","_","f","u","n","d","i","n","g","_","b","p","s","_","8","h">>,
      max_fee_bps |-> <<"m","a","x","_","f","e","e","_","b","p","s">>,
      venue_allowlist |-> <<"v","e","n","u","e","_","a","l","l","o","w","l","i","s","t">>,
      chain |-> <<"c","h","a","i","n">>,
      token |-> <<"t","o","k","e","n">>]

\* The fixed strings of version, intent_type and instrument.
S == [v1_0_0 |-> <<"1",".","0",".","0">>,
      derivatives |-> <<"d","e","r","i","v","a","t","i","v","e","s">>,
      perp |-> <<"p","e","r","p">>,
      option |-> <<"o","p","t","i","o","n">>]

\* Option<T>: None is the empty sequence, Some(x) the sequence of x alone.
None == <<>>

Some(x) == <<x>>

(***************************************************************************)
(* Primitive normalizers                                                   *)
(***************************************************************************)

\* Number of occurrences of character c in s (str::split(c) yields one more part).
RECURSIVE Count(_, _)
Count(s, c) ==
    IF s = <<>> THEN 0
    ELSE (IF Head(s) = c THEN 1 ELSE 0) + Count(Tail(s), c)

\* Canonicalizer::normalize_timestamp; the result is Ok(Str(..)) or Err.
NormalizeTimestamp(ts) ==
    LET trimmed == Trim(ts)
        parts0  == SubSeq(trimmed, 1, Find(trimmed, ".") - 1)
        normalized == IF Contains(trimmed, ".") THEN parts0 \o <<"Z">> ELSE trimmed
    IN  IF ~EndsWith(trimmed, "Z")
        THEN Err("Timestamp must end with 'Z'", ts)
        ELSE IF Contains(trimmed, "+")
                \/ (Contains(trimmed, "-") /\ ~StartsWith(trimmed, <<"2", "0">>))
        THEN Err("Timestamp must not have timezone offset", ts)
        ELSE IF Contains(trimmed, ".") /\ Count(trimmed, ".") + 1 # 2
        THEN Err("Invalid timestamp format", ts)
        ELSE IF Len(normalized) # 20
        THEN Err("Invalid timestamp length", normalized)
        ELSE IF Count(SubSeq(normalized, 1, 19), "T") + 1 # 2
        THEN Err("Invalid timestamp format, missing 'T'", normalized)
        ELSE Ok(Str(normalized))

\* Canonicalizer::normalize_signer_id
NormalizeSignerId(signer_id) ==
    LET normalized == ToLowercase(Trim(signer_id))
    IN  IF normalized = <<>> \/ Len(normalized) > 64
        THEN Err("Invalid signer_id length", signer_id)
        ELSE Ok(Str(normalized))

\* Canonicalizer::normalize_nonce
NormalizeNonce(nonce) ==
    IF nonce.t = "string" THEN Ok(Str(Trim(nonce.v)))
    ELSE IF nonce.t = "number" THEN Ok(Str(NumberToString(nonce.v)))
    ELSE Err("Nonce must be string or number", <<>>)

(***************************************************************************)
(* Nested canonicalizers                                                   *)
(***************************************************************************)

\* Canonicalizer::canonicalize_collateral
CanonicalizeCollateral(collateral) ==
    LET keys   == Keys(collateral)
        sorted == SortStrings(keys)
        chain  == ToLowercase(Trim(Get(collateral, K.chain).v))
        token  == Trim(Get(collateral, K.token).v)
    IN  IF sorted # <<K.chain, K.token>>
        THEN Err("Collateral must have exactly 'token' and 'chain'", keys)
        ELSE IF ~IsStrAt(collateral, K.chain)
        THEN Err("Missing collateral chain", <<>>)
        ELSE IF chain \notin {<<"n","e","a","r">>, <<"e","t","h","e","r","e","u","m">>,
                              <<"a","r","b","i","t","r","u","m">>, <<"b","a","s","e">>,
                              <<"s","o","l","a","n","a">>}
        THEN Err("Invalid chain", chain)
        ELSE IF ~IsStrAt(collateral, K.token)
        THEN Err("Missing collateral token", <<>>)
        ELSE Ok(Obj(BTreeInsert(BTreeInsert(<<>>, K.chain, Str(chain)), K.token, Str(token))))

\* A set of constraint keys that also admits "unknown_field".
AllowedConstraintKeysWithExtra ==
    {K.max_slippage_bps, K.max_funding_bps_8h, K.max_fee_bps, K.venue_allowlist,
     <<"u","n","k","n","o","w","n","_","f","i","e","l","d">>}

AllowedConstraintKeys == {K.max_slippage_bps, K.max_funding_bps_8h, K.max_fee_bps, K.venue_allowlist}

DefaultMaxFeeBps == 30

DefaultMaxFundingBps8h == 50

DefaultMaxSlippageBps == 100

LimitMaxFeeBps == 100

LimitMaxFundingBps8h == 100

LimitMaxSlippageBps == 1000

\* constraints.and_then(|c| c.get(key)).and_then(|v| v.as_u64()).unwrap_or(default)
U64OrDefault(constraints, key, default) ==
    IF constraints # None /\ IsU64At(constraints[1], key)
    THEN Get(constraints[1], key).v.i
    ELSE default

\* arr.iter().filter_map(|v| v.as_str().map(|s| s.trim().to_lowercase())).collect()
RECURSIVE FilterMapVenues(_)
FilterMapVenues(arr) ==
    IF arr = <<>> THEN <<>>
    ELSE IF Head(arr).t = "string"
         THEN <<ToLowercase(Trim(Head(arr).v))>> \o FilterMapVenues(Tail(arr))
         ELSE FilterMapVenues(Tail(arr))

\* The venue_allowlist of canonicalize_constraints: collected, sorted, deduplicated.
VenueAllowlist(constraints) ==
    LET collected == IF constraints # None /\ IsArrAt(constraints[1], K.venue_allowlist)
                     THEN FilterMapVenues(Get(constraints[1], K.venue_allowlist).v)
                     ELSE <<>>
    IN  Dedup(SortStrings(collected))

\* Canonicalizer::canonicalize_constraints, on Option<&Map>
CanonicalizeConstraints(constraints) ==
    LET unknown == IF constraints = None THEN {}
                   ELSE {i \in 1..Len(constraints[1]) :
                            constraints[1][i].k \notin AllowedConstraintKeys}
        firstUnknown == CHOOSE i \in unknown : \A j \in unknown : i <= j
        max_fee_bps        == U64OrDefault(constraints, K.max_fee_bps, DefaultMaxFeeBps)
        max_funding_bps_8h == U64OrDefault(constraints, K.max_funding_bps_8h, DefaultMaxFundingBps8h)
        max_slippage_bps   == U64OrDefault(constraints, K.max_slippage_bps, DefaultMaxSlippageBps)
        venue_allowlist    == VenueAllowlist(constraints)
        c1 == BTreeInsert(<<>>, K.max_fee_bps, PosInt(max_fee_bps))
        c2 == BTreeInsert(c1, K.max_funding_bps_8h, PosInt(max_funding_bps_8h))
        c3 == BTreeInsert(c2, K.max_slippage_bps, PosInt(max_slippage_bps))
        c4 == BTreeInsert(c3, K.venue_allowlist,
                          Arr([i \in 1..Len(venue_allowlist) |-> Str(venue_allowlist[i])]))
    IN  IF unknown # {}
        THEN Err("Unknown constraint field", constraints[1][firstUnknown].k)
        ELSE IF max_fee_bps > LimitMaxFeeBps
        THEN Err("max_fee_bps exceeds 100", NatToString(max_fee_bps))
        ELSE IF max_funding_bps_8h > LimitMaxFundingBps8h
        THEN Err("max_funding_bps_8h exceeds 100", NatToString(max_funding_bps_8h))
        ELSE IF max_slippage_bps > LimitMaxSlippageBps
        THEN Err("max_slippage_bps exceeds 1000", NatToString(max_slippage_bps))
        ELSE Ok(Obj(c4))

\* Canonicalizer::canonicalize_option, given the results of the calls it
\* makes on the members of the option.
OptionFromParts(option, expiry, kind, strike) ==
    IF SortStrings(Keys(option)) # <<K.expiry, K.kind, K.strike>>
    THEN Err("Option must have exactly 'kind', 'strike', 'expiry'", Keys(option))
    ELSE IF ~IsStrAt(option, K.expiry)
    THEN Err("Missing option expiry", <<>>)
    ELSE IF ~expiry.ok THEN expiry
    ELSE IF ~IsStrAt(option, K.kind)
    THEN Err("Missing option kind", <<>>)
    ELSE IF kind \notin {<<"c","a","l","l">>, <<"p","u","t">>}
    THEN Err("Invalid option kind", kind)
    ELSE IF ~HasKey(option, K.strike)
    THEN Err("Missing strike price", <<>>)
    ELSE IF ~strike.ok THEN strike
    ELSE Ok(Obj(BTreeInsert(BTreeInsert(BTreeInsert(<<>>,
                    K.expiry, expiry.val), K.kind, Str(kind)), K.strike, strike.val)))

\* Canonicalizer::canonicalize_option
CanonicalizeOption(option) ==
    OptionFromParts(option,
                    NormalizeTimestamp(Get(option, K.expiry).v),
                    ToLowercase(Trim(Get(option, K.kind).v)),
                    CanonicalizeDecimal(Get(option, K.strike), <<"0",".","0","1">>,
                                        <<"1","0","0","0","0","0","0","0","0","0">>, 2))

(***************************************************************************)
(* Canonicalizer::canonicalize_derivatives and ::canonicalize_intent       *)
(***************************************************************************)

RequiredDerivativesKeys == <<K.collateral, K.instrument, K.side, K.size, K.symbol>>

AllowedDerivativesKeysWithoutOption ==
    {K.collateral, K.constraints, K.instrument, K.leverage, K.side, K.size, K.symbol}

AllowedDerivativesKeys ==
    {K.collateral, K.constraints, K.instrument, K.leverage, K.option, K.side, K.size, K.symbol}

\* The first element of a sequence that satisfies no membership in a set, as
\* `for x in xs { if !set.contains(x) { return Err(x) } }` finds it.
FirstNotIn(xs, set) ==
    xs[CHOOSE i \in 1..Len(xs) : xs[i] \notin set /\ \A j \in 1..(i - 1) : xs[j] \in set]

\* An option that is null whatever the instrument.
OptionParamsIgnored(deriv, instrument) == Ok(Null)

\* An option that is validated whenever it is supplied.
OptionParamsValidated(deriv, instrument) ==
    IF instrument = S.option \/ (HasKey(deriv, K.option) /\ Get(deriv, K.option) # Null)
    THEN (IF IsObjAt(deriv, K.option)
          THEN CanonicalizeOption(Get(deriv, K.option).v)
          ELSE Err("Missing option params for option instrument", <<>>))
    ELSE Ok(Null)

\* The option of canonicalize_derivatives: mandatory for an option
\* instrument, null for any other.
OptionParams(deriv, instrument) ==
    IF instrument = S.option
    THEN (IF IsObjAt(deriv, K.option)
          THEN CanonicalizeOption(Get(deriv, K.option).v)
          ELSE Err("Missing option params for option instrument", <<>>))
    ELSE Ok(Null)

\* Canonicalizer::canonicalize_derivatives, given the results of the calls
\* it makes on the members of derivatives.
DerivativesFromParts(deriv, keys, collateral, constraints, instrument, leverage, option, side, size, symbol) ==
    IF \E i \in 1..Len(RequiredDerivativesKeys) :
          RequiredDerivativesKeys[i] \notin {keys[k] : k \in 1..Len(keys)}
    THEN Err("Missing required field",
             FirstNotIn(RequiredDerivativesKeys, {keys[k] : k \in 1..Len(keys)}))
    ELSE IF \E i \in 1..Len(keys) : keys[i] \notin AllowedDerivativesKeys
    THEN Err("Unknown field in derivatives", FirstNotIn(keys, AllowedDerivativesKeys))
    ELSE IF ~IsObjAt(deriv, K.collateral)
    THEN Err("Missing or invalid collateral", <<>>)
    ELSE IF ~collateral.ok THEN collateral
    ELSE IF ~constraints.ok THEN constraints
    ELSE IF ~IsStrAt(deriv, K.instrument)
    THEN Err("Missing instrument", <<>>)
    ELSE IF instrument \notin {S.perp, S.option}
    THEN Err("Invalid instrument", instrument)
    ELSE IF ~leverage.ok THEN leverage
    ELSE IF ~option.ok THEN option
    ELSE IF ~IsStrAt(deriv, K.side)
    THEN Err("Missing side", <<>>)
    ELSE IF side \notin {<<"l","o","n","g">>, <<"s","h","o","r","t">>,
                         <<"b","u","y">>, <<"s","e","l","l">>}
    THEN Err("Invalid side", side)
    ELSE IF ~size.ok THEN size
    ELSE IF ~IsStrAt(deriv, K.symbol)
    THEN Err("Missing symbol", <<>>)
    ELSE IF ~Contains(symbol, "-")
    THEN Err("Invalid symbol format", symbol)
    ELSE Ok(Obj(BTreeInsert(BTreeInsert(BTreeInsert(BTreeInsert(
                BTreeInsert(BTreeInsert(BTreeInsert(BTreeInsert(<<>>,
                    K.collateral, collateral.val),
                    K.constraints, constraints.val),
                    K.instrument, Str(instrument)),
                    K.leverage, leverage.val),
                    K.option, option.val),
                    K.side, Str(side)),
                    K.size, size.val),
                    K.symbol, Str(symbol))))

\* The leverage of canonicalize_derivatives: "1" when the key is absent.
LeverageOrDefault(deriv) ==
    IF HasKey(deriv, K.leverage)
    THEN CanonicalizeDecimal(Get(deriv, K.leverage), <<"1">>, <<"1","0","0">>, 2)
    ELSE Ok(Str(<<"1">>))

\* Canonicalizer::canonicalize_derivatives
CanonicalizeDerivatives(deriv) ==
    DerivativesFromParts(deriv,
        SortStrings(Keys(deriv)),
        CanonicalizeCollateral(Get(deriv, K.collateral).v),
        CanonicalizeConstraints(IF IsObjAt(deriv, K.constraints)
                                THEN Some(Get(deriv, K.constraints).v) ELSE None),
        ToLowercase(Trim(Get(deriv, K.instrument).v)),
        LeverageOrDefault(deriv),
        OptionParams(deriv, ToLowercase(Trim(Get(deriv, K.instrument).v))),
        ToLowercase(Trim(Get(deriv, K.side).v)),
        CanonicalizeDecimal(Get(deriv, K.size), <<"0",".","0","0","0","0","0","0","0","1">>,
                            <<"1","0","0","0","0","0","0">>, 8),
        ToUppercase(Trim(Get(deriv, K.symbol).v)))

\* An expected list that admits one more key.
ExpectedRootKeysWithExtra ==
    <<<<"a","a","a">>, K.deadline, K.derivatives, K.intent_type, K.nonce, K.signer_id, K.version>>

ExpectedRootKeys == <<K.deadline, K.derivatives, K.intent_type, K.nonce, K.signer_id, K.version>>

\* Canonicalizer::canonicalize_intent, given the results of the calls it
\* makes on the members of the intent.
IntentFromParts(obj, keys, deadline, derivatives, nonce, signer_id) ==
    IF keys # ExpectedRootKeys
    THEN Err("Invalid root fields", keys)
    ELSE IF ~IsStrAt(obj, K.version)
    THEN Err("Missing or invalid version", <<>>)
    ELSE IF Get(obj, K.version).v # S.v1_0_0
    THEN Err("Invalid version", Get(obj, K.version).v)
    ELSE IF ~IsStrAt(obj, K.intent_type)
    THEN Err("Missing or invalid intent_type", <<>>)
    ELSE IF Get(obj, K.intent_type).v # S.derivatives
    THEN Err("Invalid intent_type", Get(obj, K.intent_type).v)
    ELSE IF ~IsObjAt(obj, K.derivatives)
    THEN Err("Missing or invalid derivatives", <<>>)
    ELSE IF ~IsStrAt(obj, K.deadline)
    THEN Err("Missing deadline", <<>>)
    ELSE IF ~deadline.ok THEN deadline
    ELSE IF ~derivatives.ok THEN derivatives
    ELSE IF ~HasKey(obj, K.nonce)
    THEN Err("Missing nonce", <<>>)
    ELSE IF ~nonce.ok THEN nonce
    ELSE IF ~IsStrAt(obj, K.signer_id)
    THEN Err("Missing signer_id", <<>>)
    ELSE IF ~signer_id.ok THEN signer_id
    ELSE Ok(Obj(BTreeInsert(BTreeInsert(BTreeInsert(BTreeInsert(
                BTreeInsert(BTreeInsert(<<>>,
                    K.deadline, deadline.val),
                    K.derivatives, derivatives.val),
                    K.intent_type, Str(S.derivatives)),
                    K.nonce, nonce.val),
                    K.signer_id, signer_id.val),
                    K.version, Str(S.v1_0_0))))

\* Canonicalizer::canonicalize_intent
CanonicalizeIntent(intent) ==
    IF intent.t # "object" THEN Err("Intent must be an object", <<>>)
    ELSE IntentFromParts(intent.v,
                         SortStrings(Keys(intent.v)),
                         NormalizeTimestamp(Get(intent.v, K.deadline).v),
                         CanonicalizeDerivatives(Get(intent.v, K.derivatives).v),
                         NormalizeNonce(Get(intent.v, K.nonce)),
                         NormalizeSignerId(Get(intent.v, K.signer_id).v))

(***************************************************************************)
(* Serialization and digest                                                *)
(***************************************************************************)

\* serde_json's escaping of one character inside a string
EscapeChar(c) ==
    IF c = "\"" THEN <<"\\", "\"">>
    ELSE IF c = "\\" THEN <<"\\", "\\">>
    ELSE IF c = "\n" THEN <<"\\", "n">>
    ELSE IF c = "\t" THEN <<"\\", "t">>
    ELSE <<c>>

RECURSIVE EscapeString(_)
EscapeString(s) ==
    IF s = <<>> THEN <<>> ELSE EscapeChar(Head(s)) \o EscapeString(Tail(s))

Quoted(s) == <<"\"">> \o EscapeString(s) \o <<"\"">>

\* serde_json::to_string: compact JSON text, members in map order
RECURSIVE ToJsonString(_)
RECURSIVE JoinValues(_)
RECURSIVE JoinMembers(_)
JoinValues(xs) ==
    IF xs = <<>> THEN <<>>
    ELSE IF Len(xs) = 1 THEN ToJsonString(xs[1])
    ELSE ToJsonString(xs[1]) \o <<",">> \o JoinValues(Tail(xs))

JoinMembers(ms) ==
    IF ms = <<>> THEN <<>>
    ELSE IF Len(ms) = 1 THEN Quoted(ms[1].k) \o <<":">> \o ToJsonString(ms[1].v)
    ELSE Quoted(ms[1].k) \o <<":">> \o ToJsonString(ms[1].v) \o <<",">> \o JoinMembers(Tail(ms))

ToJsonString(value) ==
    IF value.t = "null" THEN <<"n","u","l","l">>
    ELSE IF value.t = "bool"
    THEN (IF value.v THEN <<"t","r","u","e">> ELSE <<"f","a","l","s","e">>)
    ELSE IF value.t = "number" THEN NumberToString(value.v)
    ELSE IF value.t = "string" THEN Quoted(value.v)
    ELSE IF value.t = "array" THEN <<"[">> \o JoinValues(value.v) \o <<"]">>
    ELSE <<"{">> \o JoinMembers(value.v) \o <<"}">>

\* Canonicalizer::compute_hash: SHA-256 of the bytes as lowercase hex.  The
\* digest is named by the bytes hashed (two digests are taken to be equal
\* when the bytes are); HexDigest below computes its text.
ComputeHash(canonical_json) == [sha256 |-> canonical_json]

\* The outcome of a call that returns a hash or panics (expect on an Err).
Returned(h) == [hash |-> h, panic |-> <<>>]

Panicked(msg) == [hash |-> [sha256 |-> <<>>], panic |-> <<msg>>]

\* Contract::compute_intent_hash, on the parsed intent
ComputeIntentHash(intent) ==
    LET canonical == CanonicalizeIntent(intent)
    IN  IF ~canonical.ok THEN Panicked("Failed to canonicalize intent")
        ELSE Returned(ComputeHash(ToJsonString(canonical.val)))

(***************************************************************************)
(* SHA-256 (the sha2 crate's Sha256, FIPS 180-4) on 32-bit words kept as   *)
(* pairs <<high, low>> of 16-bit halves, and its lowercase hex form.       *)
(***************************************************************************)

\* The round constants k and the initial hash value h0.
Sha256Consts ==
    [k  |-> <<<<17034, 12184>>, <<28983, 17553>>, <<46528, 64463>>, <<59829, 56229>>,
            <<14678, 49755>>, <<23025, 4593>>, <<37439, 33444>>, <<43804, 24277>>,
            <<55303, 43672>>, <<4739, 23297>>, <<9265, 34238>>, <<21772, 32195>>,
            <<29374, 23924>>, <<32990, 45566>>, <<39900, 1703>>, <<49563, 61812>>,
            <<58523, 27073>>, <<61374, 18310>>, <<4033, 40390>>, <<9228, 41420>>,
            <<11753, 11375>>, <<19060, 33962>>, <<23728, 43484>>, <<30457, 35034>>,
            <<38974, 20818>>, <<43057, 50797>>, <<45059, 10184>>, <<48985, 32711>>,
            <<50912, 3059>>, <<54695, 37191>>, <<1738, 25425>>, <<5161, 10599>>,
            <<10167, 2693>>, <<11803, 8504>>, <<19756, 28156>>, <<21304, 3347>>,
            <<25866, 29524>>, <<30314, 2747>>, <<33218, 51502>>, <<37490, 11397>>,
            <<41663, 59553>>, <<43034, 26187>>, <<49739, 35696>>, <<51052, 20899>>,
            <<53650, 59417>>, <<54937, 1572>>, <<62478, 13701>>, <<4202, 41072>>,
            <<6564, 49430>>, <<7735, 27656>>, <<10056, 30540>>, <<13488, 48309>>,
            <<14620, 3251>>, <<20184, 43594>>, <<23452, 51791>>, <<26670, 28659>>,
            <<29839, 33518>>, <<30885, 25455>>, <<33992, 30740>>, <<36039, 520>>,
            <<37054, 65530>>, <<42064, 27883>>, <<48889, 41975>>, <<50801, 30962>>>>,
     h0 |-> <<<<27145, 58983>>, <<47975, 44677>>, <<15470, 62322>>, <<42319, 62778>>,
            <<20750, 21119>>, <<39685, 26764>>, <<8067, 55723>>, <<23520, 52505>>>>]

\* A three-argument bitwise function on the n low bits of x, y and z:
\* "xor" is x ^ y ^ z, "ch" is (x & y) ^ (!x & z), "maj" is the majority.
RECURSIVE BitWise(_, _, _, _, _)
BitWise(op, x, y, z, n) ==
    IF n = 0 THEN 0
    ELSE (IF op = "xor" THEN ((x % 2) + (y % 2) + (z % 2)) % 2
          ELSE IF op = "ch" THEN (IF (x % 2) = 1 THEN (y % 2) ELSE (z % 2))
          ELSE ((x % 2) + (y % 2) + (z % 2)) \div 2)
         + 2 * BitWise(op, x \div 2, y \div 2, z \div 2, n - 1)

\* Sha256::new(), update(bytes), finalize(): the digest as 8 words.
Sha256(bytes) ==
    LET WordWise(op, x, y, z) ==
            <<BitWise(op, x[1], y[1], z[1], 16), BitWise(op, x[2], y[2], z[2], 16)>>
        \* u32::wrapping_add
        WrappingAdd(x, y) ==
            <<(x[1] + y[1] + ((x[2] + y[2]) \div 65536)) % 65536, (x[2] + y[2]) % 65536>>
        \* u32::rotate_right(n), and x >> n for n < 16 when shift is TRUE
        RotR(x, n, shift) ==
            IF shift
            THEN <<x[1] \div (2^n), (x[2] \div (2^n)) + ((x[1] % (2^n)) * (2^(16 - n)))>>
            ELSE IF n >= 16
            THEN <<(x[2] \div (2^(n - 16))) + ((x[1] % (2^(n - 16))) * (2^(32 - n))),
                   (x[1] \div (2^(n - 16))) + ((x[2] % (2^(n - 16))) * (2^(32 - n)))>>
            ELSE <<(x[1] \div (2^n)) + ((x[2] % (2^n)) * (2^(16 - n))),
                   (x[2] \div (2^n)) + ((x[1] % (2^n)) * (2^(16 - n)))>>
        \* The sigma functions: two rotations and a third rotation or shift, xor-ed.
        Sigma(x, r1, r2, r3, shift) ==
            WordWise("xor", RotR(x, r1, FALSE), RotR(x, r2, FALSE), RotR(x, r3, shift))
        \* The message schedule: the 16 words of a block extended to 64.
        RECURSIVE Schedule(_)
        Schedule(w) ==
            IF Len(w) = 64 THEN w
            ELSE Schedule(Append(w,
                    WrappingAdd(WrappingAdd(Sigma(w[Len(w) - 1], 17, 19, 10, TRUE), w[Len(w) - 6]),
                                WrappingAdd(Sigma(w[Len(w) - 14], 7, 18, 3, TRUE), w[Len(w) - 15]))))
        \* One round: the working variables a..h after the two temporaries are known.
        Step(s, t1, t2) ==
            <<WrappingAdd(t1, t2), s[1], s[2], s[3], WrappingAdd(s[4], t1), s[5], s[6], s[7]>>
        \* Rounds t..64 of the compression function on the working variables s.
        RECURSIVE Rounds(_, _, _)
        Rounds(s, w, t) ==
            IF t > 64 \/ s = <<>> THEN s
            ELSE Rounds(
                    Step(s,
                        WrappingAdd(WrappingAdd(s[8], Sigma(s[5], 6, 11, 25, FALSE)),
                            WrappingAdd(WordWise("ch", s[5], s[6], s[7]),
                                WrappingAdd(Sha256Consts.k[t], w[t]))),
                        WrappingAdd(Sigma(s[1], 2, 13, 22, FALSE), WordWise("maj", s[1], s[2], s[3]))),
                    w, t + 1)
        \* The hash value after the blocks of words (16 words each) are compressed.
        RECURSIVE Blocks(_, _, _)
        Blocks(h, s, words) ==
            IF words = <<>> THEN h
            ELSE IF s = <<>>
            THEN Blocks(h, Rounds(h, Schedule(SubSeq(words, 1, 16)), 1), words)
            ELSE Blocks([i \in 1..8 |-> WrappingAdd(h[i], s[i])], <<>>, SubSeq(words, 17, Len(words)))
        \* The padded message: the bytes, 0x80, zeros up to 56 mod 64, and the
        \* bit length as a 64-bit big-endian integer.
        Pad(m) ==
            m \o <<128>> \o [i \in 1..((64 - ((Len(m) + 9) % 64)) % 64) |-> 0] \o <<0, 0, 0, 0>>
                \o <<(Len(m) * 8) \div 16777216, (((Len(m) * 8) \div 65536) % 256),
                     (((Len(m) * 8) \div 256) % 256), (Len(m) * 8) % 256>>
        \* The bytes as big-endian 32-bit words.
        BigEndianWords(b) ==
            [i \in 1..(Len(b) \div 4) |->
                <<(b[(4 * i) - 3] * 256) + b[(4 * i) - 2], (b[(4 * i) - 1] * 256) + b[4 * i]>>]
    IN  Blocks(Sha256Consts.h0, <<>>, BigEndianWords(Pad(bytes)))

\* A hex form with uppercase digits.
UpperHex(words) ==
    [i \in 1..(8 * Len(words)) |->
        <<"0","1","2","3","4","5","6","7","8","9","A","B","C","D","E","F">>[
            ((words[(i + 7) \div 8][IF ((i - 1) % 8) < 4 THEN 1 ELSE 2]
                \div (16^(3 - ((i - 1) % 4)))) % 16) + 1]]

\* format!("{:x}", digest): two lowercase hex digits for every byte.
LowerHex(words) ==
    [i \in 1..(8 * Len(words)) |->
        <<"0","1","2","3","4","5","6","7","8","9","a","b","c","d","e","f">>[
            ((words[(i + 7) \div 8][IF ((i - 1) % 8) < 4 THEN 1 ELSE 2]
                \div (16^(3 - ((i - 1) % 4)))) % 16) + 1]]

\* The text compute_hash returns for the digest h = ComputeHash(canonical_json):
\* the SHA-256 of the bytes of canonical_json in lowercase hex.
HexDigest(h) == LowerHex(Sha256([i \in 1..Len(h.sha256) |-> CharCode[h.sha256[i]]]))

(***************************************************************************)
(* Input documents: the documents of the repository's tests, and the       *)
(* documents a caller obtains from them by a bounded number of edits       *)
(* (a member set, replaced or removed in one of the objects).              *)
(***************************************************************************)

M(key, val) == [k |-> key, v |-> val]

\* The intent of invalid_inputs_rejected and defaults_applied_consistently.
BasePerp ==
    Obj(<<M(K.version, Str(S.v1_0_0)),
          M(K.intent_type, Str(S.derivatives)),
          M(K.derivatives, Obj(<<
              M(K.instrument, Str(S.perp)),
              M(K.symbol, Str(<<"E","T","H","-","U","S","D">>)),
              M(K.side, Str(<<"l","o","n","g">>)),
              M(K.size, Str(<<"1">>)),
              M(K.collateral, Obj(<<M(K.token, Str(<<"u","s","d","c",".","n","e","a","r">>)),
                                    M(K.chain, Str(<<"n","e","a","r">>))>>))>>)),
          M(K.signer_id, Str(<<"a","l","i","c","e",".","n","e","a","r">>)),
          M(K.deadline, Str(<<"2","0","2","4","-","1","2","-","3","1","T","2","3",":","5","9",":","5","9","Z">>)),
          M(K.nonce, Str(<<"t","e","s","t">>))>>)

\* An option intent with every optional member present, after
\* test_full_canonicalization, its members in key order as a BTreeMap-backed
\* serde_json Map iterates them.
BaseOption ==
    Obj(<<M(K.deadline, Str(<<"2","0","2","4","-","0","1","-","2","3","T","1","1",":","0","0",":","0","0",".","0","0","0","Z">>)),
          M(K.derivatives, Obj(<<
              M(K.collateral, Obj(<<M(K.chain, Str(<<"N","E","A","R">>)),
                                    M(K.token, Str(<<" ","u","s","d","c",".","n","e","a","r"," ">>))>>)),
              M(K.constraints, Obj(<<M(K.max_slippage_bps, PosInt(20)),
                                     M(K.venue_allowlist, Arr(<<Str(<<"H","Y","P","E","R","L","I","Q","U","I","D">>), Str(<<"g","m","x","-","v","2">>), Str(<<"g","m","x","-","v","2">>)>>))>>)),
              M(K.instrument, Str(S.option)),
              M(K.leverage, Str(<<"1","0",".","0","0">>)),
              M(K.option, Obj(<<M(K.expiry, Str(<<"2","0","2","4","-","0","6","-","3","0","T","0","8",":","0","0",":","0","0",".","0","0","0","Z">>)),
                                M(K.kind, Str(<<"c","a","l","l">>)),
                                M(K.strike, Str(<<"1","0","0",".","5","0">>))>>)),
              M(K.side, Str(<<"B","U","Y">>)),
              M(K.size, Str(<<"1",".","5","0","0","0","0">>)),
              M(K.symbol, Str(<<"e","t","h","-","u","s","d">>))>>)),
          M(K.intent_type, Str(S.derivatives)),
          M(K.nonce, PosInt(12345)),
          M(K.signer_id, Str(<<"A","l","i","c","e",".","N","E","A","R">>)),
          M(K.version, Str(S.v1_0_0))>>)

BaseDocs == {BasePerp, BaseOption}

\* Map::insert: the member replaced in place, or appended when the key is new.
Put(members, key, val) ==
    IF HasKey(members, key)
    THEN [i \in 1..Len(members) |-> IF members[i].k = key THEN M(key, val) ELSE members[i]]
    ELSE Append(members, M(key, val))

\* Map::remove
RECURSIVE Remove(_, _)
Remove(members, key) ==
    IF members = <<>> THEN <<>>
    ELSE IF Head(members).k = key THEN Tail(members)
    ELSE <<Head(members)>> \o Remove(Tail(members), key)

\* The members in the opposite iteration order.
Reverse(members) == [i \in 1..Len(members) |-> members[Len(members) + 1 - i]]

\* The members with the letters of the string under `key` in upper case, or
\* in lower case.
Recase(members, key, upper) ==
    [i \in 1..Len(members) |->
        IF members[i].k = key /\ members[i].v.t = "string"
        THEN M(key, Str([j \in 1..Len(members[i].v.v) |->
                            IF upper THEN UpperChar[members[i].v.v[j]]
                            ELSE LowerChar[members[i].v.v[j]]]))
        ELSE members[i]]

\* One edit applied to an object's members.
EditMembers(members, e) ==
    IF e.op = "put" THEN Put(members, e.k, e.v)
    ELSE IF e.op = "remove" THEN Remove(members, e.k)
    ELSE IF e.op = "recase" THEN Recase(members, e.k, e.v.v)
    ELSE Reverse(members)

\* The members of `members` with the object under `key`, when there is one,
\* edited by e.
EditUnder(members, key, e) ==
    IF IsObjAt(members, key)
    THEN Put(members, key, Obj(EditMembers(Get(members, key).v, e)))
    ELSE members

\* The document with edit e applied at e.path: "root", "derivatives", or one
\* of the objects inside derivatives named by its key.
ApplyEdit(d, e) ==
    IF e.path = <<>> THEN Obj(EditMembers(d.v, e))
    ELSE IF e.path = K.derivatives THEN Obj(EditUnder(d.v, K.derivatives, e))
    ELSE IF IsObjAt(d.v, K.derivatives)
    THEN Obj(Put(d.v, K.derivatives,
                 Obj(EditUnder(Get(d.v, K.derivatives).v, e.path, e))))
    ELSE d

PutAt(path, key, val) == [path |-> path, op |-> "put", k |-> key, v |-> val]

RemoveAt(path, key) == [path |-> path, op |-> "remove", k |-> key, v |-> Null]

ReverseAt(path) == [path |-> path, op |-> "reverse", k |-> <<>>, v |-> Null]

RecaseAt(path, key, upper) == [path |-> path, op |-> "recase", k |-> key, v |-> Bool(upper)]

\* Edits of the root object: each member removed or given another value, an extra member added.
RootEdits ==
    {RemoveAt(<<>>, K.version),
     PutAt(<<>>, K.version, Str(<<"2",".","0",".","0">>)),
     RemoveAt(<<>>, K.intent_type),
     PutAt(<<>>, K.intent_type, Str(<<"s","p","o","t">>)),
     RemoveAt(<<>>, K.deadline),
     PutAt(<<>>, K.deadline, Str(<<"2","0","2","4","-","0","1","-","2","3","T","1","1",":","0","0",":","0","0","+","0","0",":","0","0">>)),
     PutAt(<<>>, K.deadline, Str(<<" ","2","0","2","4","-","0","1","-","2","3","T","1","1",":","0","0",":","0","0",".","1","2","3","Z"," ">>)),
     RemoveAt(<<>>, K.nonce),
     PutAt(<<>>, K.nonce, Null),
     PutAt(<<>>, K.nonce, Str(<<" ","n","-","1"," ">>)),
     RemoveAt(<<>>, K.signer_id),
     PutAt(<<>>, K.signer_id, Str(<<" "," ">>)),
     RemoveAt(<<>>, K.derivatives),
     PutAt(<<>>, K.derivatives, Str(<<"x">>)),
     PutAt(<<>>, <<"e","x","t","r","a","_","f","i","e","l","d">>, Str(<<"s","h","o","u","l","d"," ","f","a","i","l">>)),
     PutAt(<<>>, <<"a","a","a">>, Null)}

\* Edits of the derivatives object.
DerivativesEdits ==
    {RemoveAt(K.derivatives, K.collateral),
     PutAt(K.derivatives, K.collateral, Str(<<"u","s","d","c">>)),
     RemoveAt(K.derivatives, K.constraints),
     PutAt(K.derivatives, K.constraints, Obj(<<>>)),
     PutAt(K.derivatives, K.constraints, Str(<<"x">>)),
     PutAt(K.derivatives, K.constraints, Obj(<<M(K.venue_allowlist, Arr(<<Str(<<"b">>), Str(<<"a">>)>>)), M(K.max_slippage_bps, PosInt(1000)), M(K.max_funding_bps_8h, PosInt(9)), M(K.max_fee_bps, PosInt(7))>>)),
     PutAt(K.derivatives, K.instrument, Str(<<" ","O","p","t","i","o","n"," ">>)),
     PutAt(K.derivatives, K.instrument, Str(<<"P","E","R","P">>)),
     PutAt(K.derivatives, K.instrument, Str(<<"f","u","t","u","r","e">>)),
     RemoveAt(K.derivatives, K.instrument),
     RemoveAt(K.derivatives, K.leverage),
     PutAt(K.derivatives, K.leverage, Str(<<"N","a","N">>)),
     PutAt(K.derivatives, K.leverage, Str(<<"1","0","1">>)),
     PutAt(K.derivatives, K.leverage, PosInt(5)),
     PutAt(K.derivatives, K.leverage, Null),
     RemoveAt(K.derivatives, K.option),
     PutAt(K.derivatives, K.option, Null),
     PutAt(K.derivatives, K.option, Obj(<<M(K.expiry, Str(<<"2","0","2","5","-","0","3","-","2","8","T","0","8",":","0","0",":","0","0","Z">>)), M(K.strike, Str(<<"2","5","0","0">>)), M(K.kind, Str(<<"P","U","T">>))>>)),
     PutAt(K.derivatives, K.option, Str(<<"x">>)),
     PutAt(K.derivatives, K.option, Obj(<<M(K.kind, Str(<<"c","a","l","l">>)), M(K.expiry, Str(<<"2","0","2","5","-","0","3","-","2","8","T","0","8",":","0","0",":","0","0","Z">>))>>)),
     PutAt(K.derivatives, K.side, Str(<<"h","o","l","d">>)),
     RemoveAt(K.derivatives, K.side),
     PutAt(K.derivatives, K.size, Str(<<"N","a","N">>)),
     PutAt(K.derivatives, K.size, Str(<<"0">>)),
     PutAt(K.derivatives, K.size, Str(<<".","5">>)),
     PutAt(K.derivatives, K.size, Str(<<"1","0","0","0","0","0","0">>)),
     PutAt(K.derivatives, K.size, Str(<<"1","e","3">>)),
     RemoveAt(K.derivatives, K.size),
     PutAt(K.derivatives, K.size, Float(<<"0",".","2","5">>)),
     PutAt(K.derivatives, K.symbol, Str(<<"E","T","H","U","S","D">>)),
     RemoveAt(K.derivatives, K.symbol),
     PutAt(K.derivatives, <<"f","o","o">>, PosInt(1))}

\* Edits of derivatives.collateral.
CollateralEdits ==
    {RemoveAt(K.collateral, K.token),
     RemoveAt(K.collateral, K.chain),
     PutAt(K.collateral, <<"e","x","t","r","a">>, Str(<<"x">>)),
     PutAt(K.collateral, K.chain, Str(<<"m","a","r","s">>)),
     PutAt(K.collateral, K.chain, PosInt(1)),
     PutAt(K.collateral, K.token, PosInt(1)),
     PutAt(K.collateral, K.chain, Str(<<" ","S","o","l","a","n","a"," ">>))}

\* The JSON integer 18446744073709551616 = 2^64 as serde_json holds it: its
\* parser keeps an integer beyond u64 as the nearest f64.
BeyondU64 == Float(<<"1",".","8","4","4","6","7","4","4","0","7","3","7","0","9","5","5","2","e","1","9">>)

\* Edits of derivatives.constraints.
ConstraintsEdits ==
    {PutAt(K.constraints, K.max_fee_bps, PosInt(100)),
     PutAt(K.constraints, K.max_fee_bps, PosInt(101)),
     PutAt(K.constraints, K.max_fee_bps, Str(<<"7">>)),
     PutAt(K.constraints, K.max_fee_bps, NegInt(0 - 1)),
     PutAt(K.constraints, K.max_fee_bps, Float(<<"1",".","5">>)),
     PutAt(K.constraints, K.max_funding_bps_8h, PosInt(9)),
     PutAt(K.constraints, K.max_funding_bps_8h, Str(<<"9">>)),
     PutAt(K.constraints, K.max_funding_bps_8h, PosInt(100)),
     PutAt(K.constraints, K.max_funding_bps_8h, PosInt(101)),
     PutAt(K.constraints, K.max_slippage_bps, PosInt(1000)),
     PutAt(K.constraints, K.max_slippage_bps, PosInt(1001)),
     PutAt(K.constraints, K.max_fee_bps, BeyondU64),
     RemoveAt(K.constraints, K.max_slippage_bps),
     PutAt(K.constraints, K.max_slippage_bps, Null),
     PutAt(K.constraints, K.venue_allowlist, Arr(<<Str(<<"G","M","X","-","V","2">>), Str(<<"a","e","v","o">>), Str(<<"g","m","x","-","v","2">>), Str(<<"A","E","V","O">>)>>)),
     PutAt(K.constraints, K.venue_allowlist, Str(<<"a","e","v","o">>)),
     PutAt(K.constraints, K.venue_allowlist, Arr(<<PosInt(1), Str(<<" ","B"," ">>)>>)),
     RemoveAt(K.constraints, K.venue_allowlist),
     PutAt(K.constraints, <<"u","n","k","n","o","w","n","_","f","i","e","l","d">>, Str(<<"b","a","d">>))}

\* Edits of derivatives.option.
OptionEdits ==
    {RemoveAt(K.option, K.kind),
     RemoveAt(K.option, K.expiry),
     PutAt(K.option, <<"e","x","t","r","a">>, Str(<<"x">>)),
     PutAt(K.option, K.kind, Str(<<" ","P","U","T">>)),
     PutAt(K.option, K.kind, Str(<<"s","w","a","p">>)),
     PutAt(K.option, K.strike, Str(<<"N","a","N">>)),
     PutAt(K.option, K.strike, Str(<<"0",".","0","0","1">>)),
     PutAt(K.option, K.strike, PosInt(5)),
     PutAt(K.option, K.expiry, Str(<<"2","0","2","4","-","0","6","-","3","0","T","0","8",":","0","0",":","0","0","+","0","1",":","0","0">>)),
     PutAt(K.option, K.expiry, PosInt(1))}

Edits == RootEdits \cup DerivativesEdits \cup CollateralEdits \cup ConstraintsEdits \cup OptionEdits

\* Number of edits a caller applies to a base document.
MaxEdits == 2

RECURSIVE DocsWithin(_)
DocsWithin(n) ==
    IF n = 0 THEN BaseDocs
    ELSE LET prev == DocsWithin(n - 1)
         IN  prev \cup {ApplyEdit(d, e) : d \in prev, e \in Edits}

Docs == DocsWithin(MaxEdits)

(***************************************************************************)
(* Inputs of canonicalize_decimal                                          *)
(***************************************************************************)

\* The (min, max, precision) of the calls of canonicalize_decimal: size,
\* leverage, strike, and two calls of test_decimal_canonicalization.
SizeSite == [name |-> "size", min |-> <<"0",".","0","0","0","0","0","0","0","1">>,
             max |-> <<"1","0","0","0","0","0","0">>, precision |-> 8]

LeverageSite == [name |-> "leverage", min |-> <<"1">>, max |-> <<"1","0","0">>, precision |-> 2]

StrikeSite == [name |-> "strike", min |-> <<"0",".","0","1">>,
               max |-> <<"1","0","0","0","0","0","0","0","0","0">>, precision |-> 2]

TestSite2 == [name |-> "test2", min |-> <<"0">>, max |-> <<"1","0","0">>, precision |-> 2]

TestSite8 == [name |-> "test8", min |-> <<"0">>, max |-> <<"1">>, precision |-> 8]

DecSites == {SizeSite, LeverageSite, StrikeSite, TestSite2, TestSite8}

\* Characters the enumerated decimal strings are made of.
DecAlphabet == {"0", "1", ".", "e", "+", "-", " "}

\* Length up to which every string over DecAlphabet is an input.
MaxDecLen == 4

RECURSIVE StringsUpTo(_, _)
StringsUpTo(alphabet, n) ==
    IF n = 0 THEN {<<>>}
    ELSE LET shorter == StringsUpTo(alphabet, n - 1)
         IN  shorter \cup {Append(w, c) : w \in shorter, c \in alphabet}

\* Literals of the tests and of the boundaries of the three call sites.
DecLiterals ==
    {<<"N","a","N">>,
     <<"n","a","n">>,
     <<"i","n","f">>,
     <<"I","n","f","i","n","i","t","y">>,
     <<"1",".","5","0","0","0","0">>,
     <<"1","0",".","0","0">>,
     <<"0",".","0","0","0","0","0","0","0","1">>,
     <<"0",".","0","0","0","0","0","0","0","0","1">>,
     <<"1","0","0","0","0","0","0">>,
     <<"1","0","0","0","0","0","0",".","1">>,
     <<"0","0",".","5">>,
     <<"1","e","6">>,
     <<"1","E","2">>,
     <<"+","1","0">>,
     <<"1",".","5">>,
     <<"0",".","5">>,
     <<"5",".">>,
     <<" ","2",".","5","0"," ">>,
     <<"1","0","0",".","0","0","5">>,
     <<"1","0","0","0","0","0","0","0","0","0">>,
     <<"1","0","0","0","0","0","0","0","0","0",".","0","1">>,
     <<"0",".","0","1">>,
     <<"0",".","0","0","1">>,
     <<"a","b","c">>,
     <<"1",".","2",".","3">>,
     <<"-","0">>,
     <<"9","9",".","9","9">>,
     <<"0",".","1","0">>,
     <<"1",",","5">>}

DecStrings == StringsUpTo(DecAlphabet, MaxDecLen) \cup DecLiterals

DecInputs ==
    {Str(w) : w \in DecStrings}
        \cup {PosInt(0), PosInt(5), PosInt(100), PosInt(101), NegInt(0 - 1),
              Float(<<"1",".","5">>), Float(<<"1","e","-","8">>), Float(<<"0",".","0","0","5">>),
              Null, Bool(TRUE), Arr(<<>>)}

(***************************************************************************)
(* Inputs of the primitive functions called on their own                   *)
(***************************************************************************)

\* Longest venue_allowlist enumerated.
MaxVenues == 3

\* Longest text enumerated for compute_hash.
MaxHashLen == 3

\* The calls: a function and its argument.
\*  - Timestamps: a year, a date and time, and an ending (the UTC designator,
\*    fractional seconds, a timezone offset, or several of them), possibly
\*    surrounded by whitespace; and the timestamps of
\*    test_timestamp_normalization with ill-shaped ones of the canonical length.
\*  - Nonces: strings, integers, and values of every other JSON kind.
\*  - Arguments of canonicalize_constraints: no constraints, constraints
\*    without a venue_allowlist, and a venue_allowlist of at most MaxVenues
\*    entries that repeat, differ in case or carry whitespace; the list of
\*    test_venue_allowlist_deduplication; a list with entries that are no strings.
\*  - Texts hashed: the short texts over a few characters of JSON, texts at
\*    the padding boundaries of SHA-256 (55, 56 and 64 bytes), and the
\*    canonical JSON of the documents of the tests.
PrimitiveCalls ==
    LET timestamps ==
            LET years  == {<<"1","9","7","0">>, <<"1","9","9","9">>, <<"2","0","2","4">>, <<"2","0","9","9">>, <<"2","1","0","0">>}
                bodies == {<<"-","0","1","-","2","3","T","1","1",":","0","0",":","0","0">>, <<"-","1","2","-","2","8","T","2","3",":","5","9",":","5","9">>}
                tails  == {<<"Z">>, <<>>, <<".","1","2","3","Z">>, <<".","5","Z">>, <<".","Z">>, <<".","1",".","2","Z">>, <<".","1","2","3">>, <<"+","0","0",":","0","0">>, <<"-","0","5",":","0","0">>, <<"+","0","0",":","0","0","Z">>, <<"-","0","5",":","0","0","Z">>, <<".","1","2","3","-","0","5",":","0","0","Z">>, <<".","1","2","3","+","0","5",":","0","0","Z">>}
                pads   == {<<>>, <<" ">>}
            IN  {l \o y \o b \o t \o r : l \in pads, y \in years, b \in bodies, t \in tails, r \in pads}
                \cup {<<"2","0","2","4","-","0","1","-","2","3"," ","1","1",":","0","0",":","0","0","Z">>, <<"2","0","2","4","0","1","2","3","T","1","1",":","0","0",":","0","0",".","0","0","Z">>, <<"2","0","2","4","0","1","2","3","T","1","1","0","0","0","0",":","0",":","0","Z">>, <<"2","0","2","4","-","0","1","-","2","3","T","1","1",":","0","0",":","0","T","Z">>, <<"2","0","2","4","-","0","1","-","2","3","T","1","1","-","0","5",":","0","0","Z">>, <<"2","0","2","4","-","0","1","-","2","3","T","1","1",":","0","0","Z">>, <<>>, <<"Z">>, <<"2","0","2","4","-","0","1","-","2","3","t","1","1",":","0","0",":","0","0","z">>, <<"2","0","2","4","-","0","1","-","2","3","T","1","1",":","0","0",":","0","0","+","0","0",":","0","0">>, <<"2","0","2","4","-","0","1","-","2","3","T","1","1",":","0","0",":","0","0",".","1","2","3","Z">>}
        nonces ==
            {Str(<<"1">>), Str(<<" ","4","2"," ">>), Str(<<>>), Str(<<"a","b","c">>),
             PosInt(0), PosInt(7), PosInt(12345), NegInt(0 - 1),
             Float(<<"1",".","5">>), Float(<<"1","e","-","8">>),
             Null, Bool(TRUE), Bool(FALSE), Arr(<<>>), Arr(<<Str(<<"1">>)>>), Obj(<<>>)}
        constraints ==
            LET entries == {Str(<<"b">>), Str(<<"B">>), Str(<<" ","b"," ">>), Str(<<"a">>), Str(<<"a","b">>), Str(<<"A"," ">>)}
            IN  {Null, Obj(<<>>), Obj(<<M(K.max_fee_bps, PosInt(7))>>),
                 Obj(<<M(K.venue_allowlist, Arr(<<Str(<<"G","M","X","-","V","2">>), Str(<<"a","e","v","o">>), Str(<<"g","m","x","-","v","2">>), Str(<<"A","E","V","O">>)>>))>>),
                 Obj(<<M(K.venue_allowlist, Arr(<<PosInt(1), Str(<<" ","B"," ">>), Null, Str(<<"b">>)>>))>>)}
                \cup {Obj(<<M(K.venue_allowlist, Arr(vs))>>) : vs \in StringsUpTo(entries, MaxVenues)}
        texts ==
            StringsUpTo({"a", "b", "{", "\""}, MaxHashLen)
                \cup {<<"a","b","c">>, [i \in 1..55 |-> "a"], [i \in 1..56 |-> "a"], [i \in 1..64 |-> "a"]}
                \cup {ToJsonString(CanonicalizeIntent(d).val) : d \in BaseDocs}
    IN  {[callee |-> "normalize_timestamp", arg |-> Str(ts)] : ts \in timestamps}
            \cup {[callee |-> "normalize_nonce", arg |-> n] : n \in nonces}
            \cup {[callee |-> "canonicalize_constraints", arg |-> c] : c \in constraints}
            \cup {[callee |-> "compute_hash", arg |-> Str(t)] : t \in texts}

(***************************************************************************)
(* Inputs of repeated calls                                                *)
(***************************************************************************)

\* The documents a sequence of calls starts from: a base document with at
\* most one edit.
CallDocs == BaseDocs \cup {ApplyEdit(d, e) : d \in BaseDocs, e \in Edits}

\* The keys of one object written in the opposite order.
Reorderings ==
    {ReverseAt(<<>>), ReverseAt(K.derivatives), ReverseAt(K.collateral),
     ReverseAt(K.constraints), ReverseAt(K.option)}

\* The letters of one enumerated or case-folded field written in upper case
\* or in lower case (case_normalization_consistency).
Recasings ==
    {RecaseAt(f[1], f[2], u) :
        f \in {<<K.derivatives, K.instrument>>, <<K.derivatives, K.side>>,
                <<K.derivatives, K.symbol>>, <<K.collateral, K.chain>>,
                <<K.option, K.kind>>, <<<<>>, K.signer_id>>},
        u \in BOOLEAN}

\* Number of calls in one behaviour.
MaxCalls == 3

(***************************************************************************)
(* The contract (lib.rs): its stored fields, the host's clock and callers  *)
(***************************************************************************)

\* A u64 count of nanoseconds, kept as <<seconds, nanoseconds below 10^9>>.
TimeAdd(a, b) ==
    <<a[1] + b[1] + ((a[2] + b[2]) \div 1000000000), (a[2] + b[2]) % 1000000000>>

TimeLess(a, b) == a[1] < b[1] \/ (a[1] = b[1] /\ a[2] < b[2])

\* a - b on u64 for b <= a, the only case block timestamps produce
TimeSub(a, b) ==
    IF a[2] >= b[2] THEN <<a[1] - b[1], a[2] - b[2]>>
    ELSE <<a[1] - b[1] - 1, (a[2] + 1000000000) - b[2]>>

\* A serde_json number holding a u64, with the text u64::to_string prints.
U64Number(t) ==
    LET RECURSIVE PadZeros(_, _)
        PadZeros(s, n) == IF Len(s) >= n THEN s ELSE PadZeros(<<"0">> \o s, n)
        U64ToString(x) ==
            IF x[1] = 0 THEN NatToString(x[2])
            ELSE NatToString(x[1]) \o PadZeros(NatToString(x[2]), 9)
    IN  [t |-> "number", v |-> [k |-> "u64", i |-> 0, s |-> U64ToString(t)]]

\* The freshness window of execute_intents, 300_000_000_000 ns
FreshnessWindow == <<300, 0>>

\* UnorderedMap: a function on the keys present.
EmptyMap == [x \in {} |-> x]

Insert(m, key, val) == [x \in DOMAIN m \cup {key} |-> IF x = key THEN val ELSE m[x]]

\* Contract::new
DefaultGuardrails ==
    [max_position_size |-> "100000", max_leverage |-> "20", max_daily_volume |-> "1000000",
     allowed_instruments |-> <<"perp", "option">>, cooldown_seconds |-> 60]

New(treasury_account_id, protocol_fee_bps, solver_rebate_bps) ==
    [fee_config |-> [protocol_fee_bps |-> protocol_fee_bps,
                     solver_rebate_bps |-> solver_rebate_bps,
                     min_fee_usdc |-> "0.10",
                     max_fee_bps |-> 100,
                     treasury |-> treasury_account_id],
     default_guardrails |-> DefaultGuardrails,
     execution_logs |-> EmptyMap,
     symbol_configs |-> EmptyMap,
     venue_configs |-> EmptyMap,
     venues_by_symbol |-> EmptyMap,
     user_guardrails |-> EmptyMap,
     symbol_guardrails |-> EmptyMap,
     simulation_results |-> EmptyMap]

\* Contract::get_guardrails; symbol and account are Options
GetGuardrailsSymbolFirst(c, symbol, account) ==
    IF symbol # None /\ symbol[1] \in DOMAIN c.symbol_guardrails
    THEN c.symbol_guardrails[symbol[1]]
    ELSE IF account # None /\ account[1] \in DOMAIN c.user_guardrails
    THEN c.user_guardrails[account[1]]
    ELSE c.default_guardrails

GetGuardrails(c, symbol, account) ==
    IF account # None /\ account[1] \in DOMAIN c.user_guardrails
    THEN c.user_guardrails[account[1]]
    ELSE IF symbol # None /\ symbol[1] \in DOMAIN c.symbol_guardrails
    THEN c.symbol_guardrails[symbol[1]]
    ELSE c.default_guardrails

\* Contract::has_successful_simulation
HasAnySimulation(c, intent_hash) == intent_hash \in DOMAIN c.simulation_results

HasSuccessfulSimulation(c, intent_hash) ==
    IF intent_hash \in DOMAIN c.simulation_results
    THEN c.simulation_results[intent_hash].success
    ELSE FALSE

\* What a call did: the value it returned, or the panic that reverted it.
Returns(val) == [panic |-> <<>>, val |-> val]

Panics(msg) == [panic |-> <<msg>>, val |-> <<>>]

\* Accounts that call the configuration methods; the first deploys the
\* contract as its treasury.
Accounts == {"treasury.near", "alice.near"}

\* Contract::new(treasury, 20, 5) in a block stamped as the tests stamp theirs
Deployed == New("treasury.near", 20, 5)

Genesis == <<1, 0>>

\* The intents simulated and executed: one intent, the same intent with
\* another size, and an intent that canonicalize_intent rejects.
ContractIntents ==
    {BasePerp,
     ApplyEdit(BasePerp, PutAt(K.derivatives, K.size, Str(<<"2">>))),
     ApplyEdit(BasePerp, PutAt(K.derivatives, K.side, Str(<<"h","o","l","d">>)))}

\* Number of intents in one batch.
MaxBatch == 2

Batches ==
    LET RECURSIVE BatchesOf(_)
        BatchesOf(n) ==
            IF n = 0 THEN {<<>>}
            ELSE BatchesOf(n - 1) \cup
                 {Append(b, d) : b \in {x \in BatchesOf(n - 1) : Len(x) = n - 1},
                                 d \in ContractIntents}
    IN  BatchesOf(MaxBatch)

\* Contract::compute_intent_hash with its digest written out: the
\* 64-character text it returns, or the panic.  It is a function of the
\* intent alone; intent_hash_of holds its value on each intent in use.
IntentHashOf ==
    LET HashText(r) ==
            IF r.panic # <<>> THEN Panics(r.panic[1]) ELSE Returns(HexDigest(r.hash))
    IN  [d \in ContractIntents |-> HashText(ComputeIntentHash(d))]

IntentHashes ==
    {intent_hash_of[d].val : d \in {x \in DOMAIN intent_hash_of : intent_hash_of[x].panic = <<>>}}

\* Number of contract calls in one behaviour, and the seconds that pass.
MaxContractCalls == 3

MaxElapsed == 301

\* The time from one block to the next.
BlockIntervals == {<<300, 0>>, <<300, 1>>}

\* Contract::simulate_single_intent
SimulateSingleIntentUnstamped(now, intent) ==
    [simulation_hash |-> <<>>,
     timestamp |-> <<0, 0>>,
     estimated_fill |-> <<"1","0","0",".","5","0">>,
     estimated_fees |-> <<"0",".","2","5">>,
     venue |-> <<"l","y","r","a","-","v","2">>,
     valid |-> TRUE,
     error |-> None]

SimulateSingleIntent(now, intent) ==
    [simulation_hash |-> <<>>,
     timestamp |-> now,
     estimated_fill |-> <<"1","0","0",".","5","0">>,
     estimated_fees |-> <<"0",".","2","5">>,
     venue |-> <<"l","y","r","a","-","v","2">>,
     valid |-> TRUE,
     error |-> None]

\* Contract::compute_simulation_hash; json! builds a map in key order.
ComputeSimulationHash(intent_hash, sim_data) ==
    ComputeHash(ToJsonString(Obj(<<
        M(<<"e","s","t","i","m","a","t","e","d","_","f","e","e","s">>, Str(sim_data.estimated_fees)),
        M(<<"e","s","t","i","m","a","t","e","d","_","f","i","l","l">>, Str(sim_data.estimated_fill)),
        M(<<"i","n","t","e","n","t","_","h","a","s","h">>, Str(intent_hash)),
        M(<<"t","i","m","e","s","t","a","m","p">>, U64Number(sim_data.timestamp)),
        M(<<"v","e","n","u","e">>, Str(sim_data.venue))>>)))

\* One pass of the loop of simulate_intents over the intents left; success
\* is the value read for the field that SimulationData does not have.
RECURSIVE SimulateIntents(_, _, _, _, _)
SimulateIntents(c, now, intents, success, acc) ==
    IF intents = <<>>
    THEN [contract |-> c,
          outcome |-> Returns([valid |-> acc.errors = <<>>, simulated |-> acc.simulated,
                               errors |-> acc.errors, estimated_fees |-> "0",
                               warnings |-> <<>>])]
    ELSE IF intent_hash_of[Head(intents)].panic # <<>>
    THEN [contract |-> c, outcome |-> intent_hash_of[Head(intents)]]
    ELSE LET intent_hash == intent_hash_of[Head(intents)].val
             simulation == SimulateSingleIntent(now, Head(intents))
             simulation_hash == ComputeSimulationHash(intent_hash, simulation)
         IN  IF simulation.valid
             THEN SimulateIntents(
                    [c EXCEPT !.simulation_results =
                        Insert(@, intent_hash,
                               [intent_hash |-> <<>>,
                                simulation_hash |-> simulation_hash,
                                success |-> Head(success),
                                error_message |-> None,
                                timestamp |-> now,
                                estimated_fill |-> simulation.estimated_fill,
                                estimated_fees |-> simulation.estimated_fees,
                                venue |-> simulation.venue,
                                written_by |-> "simulate_intents"])],
                    now, Tail(intents), Tail(success),
                    [acc EXCEPT !.simulated =
                        Append(@, [intent_hash |-> intent_hash,
                                   simulation_hash |-> simulation_hash,
                                   estimated_fill |-> simulation.estimated_fill,
                                   venue |-> simulation.venue])])
             ELSE SimulateIntents(c, now, Tail(intents), Tail(success),
                    [acc EXCEPT !.errors =
                        Append(@, [intent_hash |-> intent_hash, error |-> simulation.error])])

\* The test of the freshness of a simulation record in execute_intents
ExpiredAtWindow(now, sim_data) ==
    ~TimeLess(TimeSub(now, sim_data.timestamp), FreshnessWindow)

Expired(now, sim_data) ==
    TimeLess(FreshnessWindow, TimeSub(now, sim_data.timestamp))

\* An entry of the receipt's failed list
FailureUnspecific(intent_hash, error, message) ==
    [intent_hash |-> intent_hash, error |-> "SIMULATION_REQUIRED", message |-> message]

Failure(intent_hash, error, message) ==
    [intent_hash |-> intent_hash, error |-> error, message |-> message]

\* An execution that uses up the simulation record.
StoreExecutionLogConsuming(c, now, intent_hash) ==
    [c EXCEPT !.execution_logs =
                  Insert(@, intent_hash,
                         [intent_hash |-> intent_hash, status |-> "executed",
                          venue |-> c.simulation_results[intent_hash].venue,
                          fill_price |-> c.simulation_results[intent_hash].estimated_fill,
                          filled_size |-> "1",
                          fees_paid |-> c.simulation_results[intent_hash].estimated_fees,
                          chain_signature |-> None, external_tx |-> None,
                          timestamps |->
                              [simulated |-> c.simulation_results[intent_hash].timestamp,
                               executed |-> now]]),
              !.simulation_results = [h \in DOMAIN @ \ {intent_hash} |-> @[h]]]

\* The execution of an intent that passed the three checks of
\* execute_intents: its log is stored under its hash.
StoreExecutionLog(c, now, intent_hash) ==
    [c EXCEPT !.execution_logs =
        Insert(@, intent_hash,
               [intent_hash |-> intent_hash,
                status |-> "executed",
                venue |-> c.simulation_results[intent_hash].venue,
                fill_price |-> c.simulation_results[intent_hash].estimated_fill,
                filled_size |-> "1",
                fees_paid |-> c.simulation_results[intent_hash].estimated_fees,
                chain_signature |-> None,
                external_tx |-> None,
                timestamps |->
                    [simulated |-> c.simulation_results[intent_hash].timestamp,
                     executed |-> now]])]

\* One pass of the loop of execute_intents over the intents left.
RECURSIVE ExecuteIntents(_, _, _, _)
ExecuteIntents(c, now, intents, acc) ==
    IF intents = <<>>
    THEN [contract |-> c,
          outcome |-> Returns([success |-> acc.failed = <<>>, executed |-> acc.executed,
                               failed |-> acc.failed, total_fee |-> "0",
                               settlements |-> <<>>])]
    ELSE IF intent_hash_of[Head(intents)].panic # <<>>
    THEN [contract |-> c, outcome |-> intent_hash_of[Head(intents)]]
    ELSE LET intent_hash == intent_hash_of[Head(intents)].val
         IN  IF intent_hash \notin DOMAIN c.simulation_results
             THEN ExecuteIntents(c, now, Tail(intents),
                    [acc EXCEPT !.failed =
                        Append(@, Failure(intent_hash, "SIMULATION_REQUIRED",
                                          "Intent must be simulated before execution"))])
             ELSE IF Expired(now, c.simulation_results[intent_hash])
             THEN ExecuteIntents(c, now, Tail(intents),
                    [acc EXCEPT !.failed =
                        Append(@, Failure(intent_hash, "SIMULATION_EXPIRED",
                                          "Simulation older than 5 minutes"))])
             ELSE IF ComputeSimulationHash(intent_hash, c.simulation_results[intent_hash])
                        # c.simulation_results[intent_hash].simulation_hash
             THEN ExecuteIntents(c, now, Tail(intents),
                    [acc EXCEPT !.failed =
                        Append(@, Failure(intent_hash, "SIMULATION_HASH_MISMATCH",
                                          "Intent parameters changed since simulation"))])
             ELSE ExecuteIntents(StoreExecutionLog(c, now, intent_hash), now, Tail(intents),
                    [acc EXCEPT !.executed = Append(@, intent_hash)])

(***************************************************************************)
(* Specifications                                                          *)
(***************************************************************************)

\* Values of the result variables before the first call.
Pending == [ok |-> FALSE, val |-> Null, err |-> <<"(no call yet)", <<>>>>]

PendingDigest == [hash |-> [sha256 |-> <<>>], panic |-> <<"(no call yet)">>]

IntentIdle == doc = Null /\ result = Pending /\ digest = PendingDigest /\ history = <<>>

DecimalIdle == decIn = Null /\ decSite = SizeSite /\ decOut = Pending

intentVars == <<doc, result, digest, history>>

decimalVars == <<decIn, decSite, decOut>>

PrimitiveIdle == callee = "none" /\ arg = Null /\ ret = Pending

primitiveVars == <<callee, arg, ret>>

contractVars == <<contract, block_timestamp, call, outcome, intent_hash_of>>

NoCall == [method |-> "none", seq |-> 0, predecessor |-> "none", args |-> <<>>]

ContractIdle ==
    /\ contract = Deployed /\ block_timestamp = Genesis
    /\ call = NoCall /\ outcome = Returns(<<>>)
    /\ intent_hash_of = EmptyMap

otherVars == <<pc, intentVars, decimalVars, primitiveVars, intent_hash_of>>

\* A caller holds one document out of Docs.
Init ==
    /\ pc = "ready"
    /\ doc \in Docs
    /\ result = Pending /\ digest = PendingDigest /\ history = <<>>
    /\ DecimalIdle
    /\ PrimitiveIdle
    /\ ContractIdle

\* A call that remembers the documents it was given and refuses a repeated one.
CallIntentReplayChecked ==
    /\ pc = "ready"
    /\ result' = IF \E i \in 1..Len(history) : history[i].doc = doc
                 THEN Err("Intent already processed", <<>>)
                 ELSE CanonicalizeIntent(doc)
    /\ digest' = ComputeIntentHash(doc)
    /\ history' = Append(history, [doc |-> doc, result |-> result', digest |-> digest'])
    /\ pc' = "called"
    /\ UNCHANGED <<doc, decimalVars, primitiveVars, contractVars>>

\* canonicalize_intent and compute_intent_hash applied to the document held.
CallIntent ==
    /\ pc = "ready"
    /\ result' = CanonicalizeIntent(doc)
    /\ digest' = ComputeIntentHash(doc)
    /\ history' = Append(history, [doc |-> doc, result |-> result', digest |-> digest'])
    /\ pc' = "called"
    /\ UNCHANGED <<doc, decimalVars, primitiveVars, contractVars>>

\* The tree the first call returned is handed to canonicalize_intent again.
SubmitCanonical ==
    /\ pc = "called"
    /\ Len(history) = 1
    /\ result.ok
    /\ doc' = result.val
    /\ pc' = "ready"
    /\ UNCHANGED <<result, digest, history, decimalVars, primitiveVars, contractVars>>

Next == CallIntent \/ SubmitCanonical

Spec == Init /\ [][Next]_vars

\* Repeated calls: the first document is one of CallDocs; every later call
\* is given the same document again, the document with the keys of one of
\* its objects reordered, or another base document.
InitCalls ==
    /\ pc = "ready"
    /\ doc \in CallDocs
    /\ result = Pending /\ digest = PendingDigest /\ history = <<>>
    /\ DecimalIdle
    /\ PrimitiveIdle
    /\ ContractIdle

Resubmit ==
    /\ pc = "called"
    /\ Len(history) < MaxCalls
    /\ pc' = "ready"
    /\ UNCHANGED <<doc, result, digest, history, decimalVars, primitiveVars, contractVars>>

SubmitReordered ==
    /\ pc = "called"
    /\ Len(history) < MaxCalls
    /\ \E r \in Reorderings :
          /\ ApplyEdit(doc, r) # doc
          /\ doc' = ApplyEdit(doc, r)
    /\ pc' = "ready"
    /\ UNCHANGED <<result, digest, history, decimalVars, primitiveVars, contractVars>>

SubmitRecased ==
    /\ pc = "called"
    /\ Len(history) < MaxCalls
    /\ \E r \in Recasings :
          /\ ApplyEdit(doc, r) # doc
          /\ doc' = ApplyEdit(doc, r)
    /\ pc' = "ready"
    /\ UNCHANGED <<result, digest, history, decimalVars, primitiveVars, contractVars>>

SubmitOther ==
    /\ pc = "called"
    /\ Len(history) < MaxCalls
    /\ \E d \in BaseDocs :
          /\ d # doc
          /\ doc' = d
    /\ pc' = "ready"
    /\ UNCHANGED <<result, digest, history, decimalVars, primitiveVars, contractVars>>

NextCalls == CallIntent \/ Resubmit \/ SubmitReordered \/ SubmitRecased \/ SubmitOther

SpecCalls == InitCalls /\ [][NextCalls]_vars

\* canonicalize_decimal applied to one value with one call's bounds.
InitDecimal ==
    /\ pc = "ready"
    /\ decIn \in DecInputs
    /\ decSite \in DecSites
    /\ decOut = Pending
    /\ IntentIdle
    /\ PrimitiveIdle
    /\ ContractIdle

CallDecimal ==
    /\ pc = "ready"
    /\ decOut' = CanonicalizeDecimal(decIn, decSite.min, decSite.max, decSite.precision)
    /\ pc' = "called"
    /\ UNCHANGED <<decIn, decSite, intentVars, primitiveVars, contractVars>>

NextDecimal == CallDecimal

SpecDecimal == InitDecimal /\ [][NextDecimal]_vars

\* A primitive function applied to one argument.
InitPrimitives ==
    /\ pc = "ready"
    /\ \E c \in PrimitiveCalls : callee = c.callee /\ arg = c.arg
    /\ ret = Pending
    /\ IntentIdle
    /\ DecimalIdle
    /\ ContractIdle

CallNormalizeTimestamp ==
    /\ pc = "ready"
    /\ callee = "normalize_timestamp"
    /\ ret' = NormalizeTimestamp(arg.v)
    /\ pc' = "called"
    /\ UNCHANGED <<callee, arg, intentVars, decimalVars, contractVars>>

\* The value a call returned is handed to the same function again.
Renormalize ==
    /\ pc = "called"
    /\ callee = "normalize_timestamp"
    /\ ret.ok
    /\ ret.val # arg
    /\ arg' = ret.val
    /\ pc' = "ready"
    /\ UNCHANGED <<callee, ret, intentVars, decimalVars, contractVars>>

CallNormalizeNonce ==
    /\ pc = "ready"
    /\ callee = "normalize_nonce"
    /\ ret' = NormalizeNonce(arg)
    /\ pc' = "called"
    /\ UNCHANGED <<callee, arg, intentVars, decimalVars, contractVars>>

\* canonicalize_constraints(None) or canonicalize_constraints(Some(map))
CallCanonicalizeConstraints ==
    /\ pc = "ready"
    /\ callee = "canonicalize_constraints"
    /\ ret' = CanonicalizeConstraints(IF arg = Null THEN None ELSE Some(arg.v))
    /\ pc' = "called"
    /\ UNCHANGED <<callee, arg, intentVars, decimalVars, contractVars>>

\* compute_hash on a text; it returns a String, kept as Ok(text).
CallComputeHash ==
    /\ pc = "ready"
    /\ callee = "compute_hash"
    /\ ret' = Ok(Str(HexDigest(ComputeHash(arg.v))))
    /\ pc' = "called"
    /\ UNCHANGED <<callee, arg, intentVars, decimalVars, contractVars>>

NextPrimitives ==
    \/ CallComputeHash
    \/ CallNormalizeTimestamp
    \/ Renormalize
    \/ CallNormalizeNonce
    \/ CallCanonicalizeConstraints

SpecPrimitives == InitPrimitives /\ [][NextPrimitives]_vars

\* The contract's simulation gate: record_simulation, log_execution,
\* simulate_intents and execute_intents called in any order by any account,
\* in blocks whose timestamps do not decrease.
InitGate ==
    /\ pc = "idle"
    /\ IntentIdle
    /\ DecimalIdle
    /\ PrimitiveIdle
    /\ contract = Deployed /\ block_timestamp = Genesis
    /\ call = NoCall /\ outcome = Returns(<<>>)
    /\ intent_hash_of = IntentHashOf

Called(method, predecessor, args) ==
    [method |-> method, seq |-> call.seq + 1, predecessor |-> predecessor, args |-> args]

\* The end of a call: the state it leaves and what it returns.
Finish(r) == contract' = r.contract /\ outcome' = r.outcome

\* The values read for the fields of a record that record_simulation's
\* SimulationResult does not have.
UnwrittenFields ==
    {[estimated_fill |-> <<"1","0","0",".","5","0">>, estimated_fees |-> <<"0",".","2","5">>, venue |-> <<"l","y","r","a","-","v","2">>],
     [estimated_fill |-> <<>>, estimated_fees |-> <<>>, venue |-> <<>>]}

\* Contract::record_simulation; the caller passes the simulation hash of
\* the parameters, or the hash of something else.
RecordSimulation ==
    /\ call.seq < MaxContractCalls
    /\ \E intent_hash \in IntentHashes, success \in BOOLEAN, matching \in BOOLEAN,
          unwritten \in UnwrittenFields :
          LET simulation_hash ==
                  IF matching
                  THEN ComputeSimulationHash(intent_hash,
                           [timestamp |-> block_timestamp,
                            estimated_fill |-> unwritten.estimated_fill,
                            estimated_fees |-> unwritten.estimated_fees,
                            venue |-> unwritten.venue])
                  ELSE ComputeHash(<<"o","t","h","e","r">>)
              error_message == IF success THEN None ELSE Some("simulation failed")
          IN  /\ contract' = [contract EXCEPT !.simulation_results =
                    Insert(@, intent_hash,
                           [intent_hash |-> intent_hash,
                            simulation_hash |-> simulation_hash,
                            success |-> success,
                            error_message |-> error_message,
                            timestamp |-> block_timestamp,
                            estimated_fill |-> unwritten.estimated_fill,
                            estimated_fees |-> unwritten.estimated_fees,
                            venue |-> unwritten.venue,
                            written_by |-> "record_simulation"])]
              /\ call' = Called("record_simulation", "bob.near",
                                [intent_hash |-> intent_hash, simulation_hash |-> simulation_hash,
                                 success |-> success, error_message |-> error_message])
              /\ outcome' = Returns(<<>>)
    /\ UNCHANGED <<block_timestamp, otherVars>>

\* Contract::log_execution
LogExecution ==
    /\ call.seq < MaxContractCalls
    /\ \E intent_hash \in IntentHashes :
          LET log == [intent_hash |-> intent_hash, solver_id |-> "bob.near",
                      venue |-> "lyra-v2", fill_price |-> "100.50", notional |-> 1000,
                      fees_bps |-> 5, pnl |-> None, status |-> "filled",
                      timestamp |-> block_timestamp]
          IN  /\ call' = Called("log_execution", "bob.near",
                                [intent_hash |-> intent_hash, log |-> log])
              /\ IF HasSuccessfulSimulation(contract, intent_hash)
                 THEN /\ contract' = [contract EXCEPT !.execution_logs =
                                         Insert(@, intent_hash, log)]
                      /\ outcome' = Returns(<<>>)
                 ELSE /\ contract' = contract
                      /\ outcome' = Panics("Execution requires successful simulation")
    /\ UNCHANGED <<block_timestamp, otherVars>>

\* Contract::simulate_intents on a batch of parsed intents; a panic reverts
\* the whole call.
CallSimulateIntents ==
    /\ call.seq < MaxContractCalls
    /\ \E intents \in Batches :
          \E success \in [1..Len(intents) -> BOOLEAN] :
             /\ call' = Called("simulate_intents", "bob.near", [intents |-> intents])
             /\ Finish(SimulateIntents(contract, block_timestamp, intents, success,
                                       [simulated |-> <<>>, errors |-> <<>>]))
    /\ UNCHANGED <<block_timestamp, otherVars>>

\* Contract::execute_intents on a batch of parsed intents
CallExecuteIntents ==
    /\ call.seq < MaxContractCalls
    /\ \E intents \in Batches :
          /\ call' = Called("execute_intents", "bob.near", [intents |-> intents])
          /\ Finish(ExecuteIntents(contract, block_timestamp, intents,
                                   [executed |-> <<>>, failed |-> <<>>]))
    /\ UNCHANGED <<block_timestamp, otherVars>>

\* The next block: env::block_timestamp() grows.
AdvanceBlock ==
    /\ \E d \in BlockIntervals :
          /\ ~TimeLess(<<MaxElapsed, 0>>, TimeSub(TimeAdd(block_timestamp, d), Genesis))
          /\ block_timestamp' = TimeAdd(block_timestamp, d)
    /\ UNCHANGED <<contract, call, outcome, otherVars>>

NextGate ==
    \/ RecordSimulation
    \/ LogExecution
    \/ CallSimulateIntents
    \/ CallExecuteIntents
    \/ AdvanceBlock

SpecGate == InitGate /\ [][NextGate]_vars

\* The contract's configuration: the five configuration methods called by
\* the treasury or by another account, and the view get_guardrails.
InitConfig ==
    /\ pc = "idle"
    /\ IntentIdle
    /\ DecimalIdle
    /\ PrimitiveIdle
    /\ ContractIdle

\* env::predecessor_account_id() == self.fee_config.treasury
PredecessorIsDeployer(c, predecessor) == predecessor = Deployed.fee_config.treasury

PredecessorIsTreasury(c, predecessor) == predecessor = c.fee_config.treasury

\* The arguments the configuration methods are called with.
ConfigInputs ==
    [guardrails |->
        {[DefaultGuardrails EXCEPT !.max_leverage = "5"],
         [DefaultGuardrails EXCEPT !.max_leverage = "50", !.cooldown_seconds = 0]},
     symbols |-> {"ETH-USD", "BTC-USD"},
     users |-> {"alice.near", "bob.near"},
     symbol_configs |->
        {[symbol |-> s, instruments |-> <<"perp">>, min_size |-> "0.01",
          max_size |-> "1000", tick_size |-> "0.01"] : s \in {"ETH-USD", "BTC-USD"}},
     venue_configs |->
        {[venue_id |-> "lyra-v2", chain |-> "base", supported_instruments |-> <<"option">>,
          fee_bps |-> 5]},
     venue_symbols |-> {<<>>, <<"ETH-USD">>, <<"ETH-USD", "BTC-USD">>},
     fee_configs |->
        {[protocol_fee_bps |-> p, solver_rebate_bps |-> 5, min_fee_usdc |-> "0.10",
          max_fee_bps |-> m, treasury |-> t] :
            p \in {1000, 1001}, m \in {1000, 1001}, t \in {"treasury.near", "alice.near"}}]

\* Contract::add_symbol_config
AddSymbolConfig ==
    /\ call.seq < MaxContractCalls
    /\ \E predecessor \in Accounts, config \in ConfigInputs.symbol_configs :
          /\ call' = Called("add_symbol_config", predecessor, [config |-> config])
          /\ IF ~PredecessorIsTreasury(contract, predecessor)
             THEN Finish([contract |-> contract,
                          outcome |-> Panics("Only treasury can add symbols")])
             ELSE Finish([contract |-> [contract EXCEPT !.symbol_configs =
                                           Insert(@, config.symbol, config)],
                          outcome |-> Returns(<<>>)])
    /\ UNCHANGED <<block_timestamp, otherVars>>

\* Contract::add_venue_config; the loop adds the venue to the set of each
\* symbol, which it creates when the symbol has none.
AddVenueConfig ==
    /\ call.seq < MaxContractCalls
    /\ \E predecessor \in Accounts, config \in ConfigInputs.venue_configs,
          symbols \in ConfigInputs.venue_symbols :
          /\ call' = Called("add_venue_config", predecessor,
                            [config |-> config, symbols |-> symbols])
          /\ IF ~PredecessorIsTreasury(contract, predecessor)
             THEN Finish([contract |-> contract,
                          outcome |-> Panics("Only treasury can add venues")])
             ELSE Finish(
                    [contract |->
                        [contract EXCEPT
                            !.venue_configs = Insert(@, config.venue_id, config),
                            !.venues_by_symbol =
                                [s \in DOMAIN @ \cup {symbols[i] : i \in 1..Len(symbols)} |->
                                    IF \E i \in 1..Len(symbols) : symbols[i] = s
                                    THEN (IF s \in DOMAIN @ THEN @[s] ELSE {})
                                            \cup {config.venue_id}
                                    ELSE @[s]]],
                     outcome |-> Returns(<<>>)])
    /\ UNCHANGED <<block_timestamp, otherVars>>

\* Contract::set_user_guardrails
SetUserGuardrails ==
    /\ call.seq < MaxContractCalls
    /\ \E predecessor \in Accounts, account \in ConfigInputs.users,
          guardrails \in ConfigInputs.guardrails :
          /\ call' = Called("set_user_guardrails", predecessor,
                            [account |-> account, guardrails |-> guardrails])
          /\ IF ~PredecessorIsTreasury(contract, predecessor)
             THEN Finish([contract |-> contract,
                          outcome |-> Panics("Only treasury can set guardrails")])
             ELSE Finish([contract |-> [contract EXCEPT !.user_guardrails =
                                           Insert(@, account, guardrails)],
                          outcome |-> Returns(<<>>)])
    /\ UNCHANGED <<block_timestamp, otherVars>>

\* Contract::set_symbol_guardrails
SetSymbolGuardrails ==
    /\ call.seq < MaxContractCalls
    /\ \E predecessor \in Accounts, symbol \in ConfigInputs.symbols,
          guardrails \in ConfigInputs.guardrails :
          /\ call' = Called("set_symbol_guardrails", predecessor,
                            [symbol |-> symbol, guardrails |-> guardrails])
          /\ IF ~PredecessorIsTreasury(contract, predecessor)
             THEN Finish([contract |-> contract,
                          outcome |-> Panics("Only treasury can set guardrails")])
             ELSE Finish([contract |-> [contract EXCEPT !.symbol_guardrails =
                                           Insert(@, symbol, guardrails)],
                          outcome |-> Returns(<<>>)])
    /\ UNCHANGED <<block_timestamp, otherVars>>

\* Contract::update_fee_config
UpdateFeeConfig ==
    /\ call.seq < MaxContractCalls
    /\ \E predecessor \in Accounts, config \in ConfigInputs.fee_configs :
          /\ call' = Called("update_fee_config", predecessor, [config |-> config])
          /\ IF ~PredecessorIsTreasury(contract, predecessor)
             THEN Finish([contract |-> contract,
                          outcome |-> Panics("Only treasury can update fees")])
             ELSE IF ~(config.protocol_fee_bps <= 1000)
             THEN Finish([contract |-> contract,
                          outcome |-> Panics("Protocol fee cannot exceed 10%")])
             ELSE IF ~(config.max_fee_bps <= 1000)
             THEN Finish([contract |-> contract,
                          outcome |-> Panics("Max fee cannot exceed 10%")])
             ELSE Finish([contract |-> [contract EXCEPT !.fee_config = config],
                          outcome |-> Returns(<<>>)])
    /\ UNCHANGED <<block_timestamp, otherVars>>

\* Contract::get_guardrails, a view
CallGetGuardrails ==
    /\ call.seq < MaxContractCalls
    /\ \E predecessor \in Accounts,
          symbol \in {None} \cup {Some(s) : s \in ConfigInputs.symbols},
          account \in {None} \cup {Some(a) : a \in ConfigInputs.users} :
          /\ call' = Called("get_guardrails", predecessor,
                            [symbol |-> symbol, account |-> account])
          /\ Finish([contract |-> contract,
                     outcome |-> Returns(GetGuardrails(contract, symbol, account))])
    /\ UNCHANGED <<block_timestamp, otherVars>>

NextConfig ==
    \/ AddSymbolConfig
    \/ AddVenueConfig
    \/ SetUserGuardrails
    \/ SetSymbolGuardrails
    \/ UpdateFeeConfig
    \/ CallGetGuardrails

SpecConfig == InitConfig /\ [][NextConfig]_vars

(***************************************************************************)
(* Properties                                                              *)
(***************************************************************************)

\* The six names a root object must have.
RootFieldNames == {K.deadline, K.derivatives, K.intent_type, K.nonce, K.signer_id, K.version}

KeySet(members) == {members[i].k : i \in 1..Len(members)}

\* The canonical derivatives object of an accepted document.
CanonDerivatives == Get(result.val.v, K.derivatives).v

\* C1: a document whose set of root keys is not exactly {deadline,
\* derivatives, intent_type, nonce, signer_id, version} is rejected with the
\* root-field error and yields no canonical tree and no digest, whatever the
\* order of its keys and the values of its fields.
C1_RootKeySetEnforced ==
    (pc = "called" /\ KeySet(doc.v) # RootFieldNames)
        => /\ ~result.ok
           /\ result.val = Null
           /\ result.err[1] = "Invalid root fields"
           /\ digest.panic # <<>>

\* A document with the six keys and one more has been rejected.
C1_Witness ==
    /\ pc = "called"
    /\ RootFieldNames \subseteq KeySet(doc.v)
    /\ KeySet(doc.v) # RootFieldNames
    /\ result.err[1] = "Invalid root fields"

RECURSIVE SameUpToKeyOrder(_, _)
SameUpToKeyOrder(a, b) ==
    IF a.t # b.t THEN FALSE
    ELSE IF a.t = "object"
    THEN /\ Len(a.v) = Len(b.v)
         /\ \A i \in 1..Len(a.v) :
               /\ HasKey(b.v, a.v[i].k)
               /\ SameUpToKeyOrder(a.v[i].v, Get(b.v, a.v[i].k))
    ELSE IF a.t = "array"
    THEN /\ Len(a.v) = Len(b.v)
         /\ \A i \in 1..Len(a.v) : SameUpToKeyOrder(a.v[i], b.v[i])
    ELSE a = b

\* C3: two documents that differ only in the order of keys (at the root, in
\* derivatives, in collateral, constraints or option) are both rejected, or
\* are both accepted with the same canonical tree and the same digest.
C3_FieldOrderIndependence ==
    \A i, j \in 1..Len(history) :
        SameUpToKeyOrder(history[i].doc, history[j].doc)
            => /\ history[i].result.ok = history[j].result.ok
               /\ history[i].result.val = history[j].result.val
               /\ history[i].digest = history[j].digest

\* An accepted document and a differently ordered copy of it were both submitted.
C3_Witness ==
    \E i, j \in 1..Len(history) :
        /\ history[i].doc # history[j].doc
        /\ SameUpToKeyOrder(history[i].doc, history[j].doc)
        /\ history[i].result.ok
        /\ history[j].result.ok

IsOptionObject(v) == v.t = "object" /\ Keys(v.v) = <<K.expiry, K.kind, K.strike>>

\* The document names the option instrument (after trimming and case folding).
NamesOptionInstrument(d) ==
    /\ IsObjAt(d.v, K.derivatives)
    /\ IsStrAt(Get(d.v, K.derivatives).v, K.instrument)
    /\ ToLowercase(Trim(Get(Get(d.v, K.derivatives).v, K.instrument).v)) = S.option

\* C4: in an accepted document the canonical option is an {expiry, kind,
\* strike} object exactly when the canonical instrument is "option", and
\* null exactly when it is "perp"; a document that names the option
\* instrument without an option object is rejected.
C4_OptionIffOptionInstrument ==
    pc = "called"
        => /\ result.ok =>
                /\ Get(CanonDerivatives, K.instrument).v \in {S.perp, S.option}
                /\ IsOptionObject(Get(CanonDerivatives, K.option))
                      <=> Get(CanonDerivatives, K.instrument).v = S.option
                /\ Get(CanonDerivatives, K.option) = Null
                      <=> Get(CanonDerivatives, K.instrument).v = S.perp
           /\ (NamesOptionInstrument(doc)
                 /\ ~IsObjAt(Get(doc.v, K.derivatives).v, K.option)) => ~result.ok

\* An option document has been accepted with its option object.
C4_Witness ==
    /\ pc = "called"
    /\ result.ok
    /\ Get(CanonDerivatives, K.instrument).v = S.option
    /\ IsOptionObject(Get(CanonDerivatives, K.option))

\* The derivatives object of the document submitted.
DocDerivatives == Get(doc.v, K.derivatives).v

\* The constraints object the document supplies.
DocConstraints == Get(DocDerivatives, K.constraints).v

BpsKeys == {K.max_fee_bps, K.max_funding_bps_8h, K.max_slippage_bps}

DefaultBps(key) ==
    IF key = K.max_fee_bps THEN DefaultMaxFeeBps
    ELSE IF key = K.max_funding_bps_8h THEN DefaultMaxFundingBps8h
    ELSE DefaultMaxSlippageBps

DefaultConstraints ==
    Obj(<<M(K.max_fee_bps, PosInt(DefaultMaxFeeBps)),
          M(K.max_funding_bps_8h, PosInt(DefaultMaxFundingBps8h)),
          M(K.max_slippage_bps, PosInt(DefaultMaxSlippageBps)),
          M(K.venue_allowlist, Arr(<<>>))>>)

\* The canonical list holds the supplied venues (trimmed, in lower case) and
\* nothing else.
SuppliedVenuesKept(supplied, canon) ==
    /\ supplied.t = "array"
    /\ \A i \in 1..Len(supplied.v) : supplied.v[i].t = "string"
    /\ {canon.v[i] : i \in 1..Len(canon.v)}
          = {Str(ToLowercase(Trim(supplied.v[i].v))) : i \in 1..Len(supplied.v)}

\* C5: in an accepted document an absent leverage becomes "1", an absent
\* constraints object becomes {max_fee_bps: 30, max_funding_bps_8h: 50,
\* max_slippage_bps: 100, venue_allowlist: []}, and of a present constraints
\* object every absent sub-field takes its default while every present one
\* keeps the value supplied; the canonical constraints has all four keys.
C5_DefaultsForAbsentFields ==
    (pc = "called" /\ result.ok) =>
        /\ ~HasKey(DocDerivatives, K.leverage)
              => Get(CanonDerivatives, K.leverage) = Str(<<"1">>)
        /\ ~HasKey(DocDerivatives, K.constraints)
              => Get(CanonDerivatives, K.constraints) = DefaultConstraints
        /\ Keys(Get(CanonDerivatives, K.constraints).v)
              = <<K.max_fee_bps, K.max_funding_bps_8h, K.max_slippage_bps, K.venue_allowlist>>
        /\ IsObjAt(DocDerivatives, K.constraints) =>
              /\ \A key \in BpsKeys :
                    Get(Get(CanonDerivatives, K.constraints).v, key)
                        = IF HasKey(DocConstraints, key) THEN Get(DocConstraints, key)
                          ELSE PosInt(DefaultBps(key))
              /\ IF HasKey(DocConstraints, K.venue_allowlist)
                 THEN SuppliedVenuesKept(Get(DocConstraints, K.venue_allowlist),
                                         Get(Get(CanonDerivatives, K.constraints).v, K.venue_allowlist))
                 ELSE Get(Get(CanonDerivatives, K.constraints).v, K.venue_allowlist) = Arr(<<>>)

\* A text of digits with at most one decimal point and at least one digit.
IsPlainNumber(s) ==
    /\ \A i \in 1..Len(s) : IsDigit(s[i]) \/ s[i] = "."
    /\ Count(s, ".") <= 1
    /\ \E i \in 1..Len(s) : IsDigit(s[i])

\* The text canonicalize_decimal reads from a value.
DecText(v) ==
    IF v.t = "string" THEN Trim(v.v)
    ELSE IF v.t = "number" THEN NumberToString(v.v)
    ELSE <<>>

\* An optional member of derivatives that is present and invalid.
InvalidOptionalField(d) ==
    \/ HasKey(d, K.constraints) /\ ~IsObjAt(d, K.constraints)
    \/ /\ IsObjAt(d, K.constraints)
       /\ \E key \in BpsKeys :
             HasKey(Get(d, K.constraints).v, key) /\ ~IsU64At(Get(d, K.constraints).v, key)
    \/ /\ IsObjAt(d, K.constraints)
       /\ HasKey(Get(d, K.constraints).v, K.venue_allowlist)
       /\ \/ ~IsArrAt(Get(d, K.constraints).v, K.venue_allowlist)
          \/ \E i \in 1..Len(Get(Get(d, K.constraints).v, K.venue_allowlist).v) :
                Get(Get(d, K.constraints).v, K.venue_allowlist).v[i].t # "string"
    \/ HasKey(d, K.leverage) /\ ~IsPlainNumber(DecText(Get(d, K.leverage)))

\* C6: a document with a present but invalid optional field (constraints
\* that is no object, a max_fee_bps, max_funding_bps_8h or max_slippage_bps
\* that is no non-negative integer, a venue_allowlist that is no list or
\* holds a non-string entry, an invalid leverage) is rejected: no default
\* stands in for the invalid value and no entry is dropped.
C6_DefaultsNeverReplaceInvalid ==
    (pc = "called" /\ IsObjAt(doc.v, K.derivatives) /\ InvalidOptionalField(DocDerivatives))
        => ~result.ok

HasLeadingZero(s) == Len(s) > 1 /\ s[1] = "0" /\ s[2] # "."

\* A text with an exponent marker, a sign, or a leading zero.
Forbidden(s) ==
    \/ \E i \in 1..Len(s) : s[i] \in {"e", "E"}
    \/ s # <<>> /\ s[1] \in {"+", "-"}
    \/ HasLeadingZero(s)

\* C7: whatever the bounds and the precision, canonicalize_decimal rejects
\* every input whose text (surrounding whitespace removed) contains 'e' or
\* 'E', starts with '+' or '-', or has a leading zero other than the bare
\* "0" or a "0." prefix, and returns no canonical value for it.
C7_RejectsExponentSignLeadingZero ==
    (pc = "called" /\ Forbidden(DecText(decIn)))
        => ~decOut.ok /\ decOut.val = Null

\* A number in scientific notation that f64 parsing would read has been rejected.
C7_Witness ==
    /\ pc = "called"
    /\ decIn.t = "string"
    /\ \E i \in 1..Len(decIn.v) : decIn.v[i] = "e"
    /\ ParseF64(decIn.v).cls = "fin"
    /\ ~decOut.ok

FractionDigits(s) == IF Find(s, ".") = 0 THEN 0 ELSE Len(s) - Find(s, ".")

\* C8: canonicalize_decimal accepts an input only if its value v is a number
\* with min <= v <= max and the input has at most `precision` digits after
\* the decimal point; an input equal to min or to max is accepted.  The call
\* sites of size, leverage and strike are among the sites checked.
C8_AcceptedOnlyInRange ==
    pc = "called" =>
        /\ decOut.ok =>
              /\ ParseF64(DecText(decIn)).cls = "fin"
              /\ ~F64Less(ParseF64(DecText(decIn)), ParseF64(decSite.min))
              /\ ~F64Less(ParseF64(decSite.max), ParseF64(DecText(decIn)))
              /\ FractionDigits(DecText(decIn)) <= decSite.precision
        /\ decIn \in {Str(decSite.min), Str(decSite.max)} => decOut.ok

\* A canonical decimal numeral.
IsCanonicalNumeral(s) ==
    /\ IsPlainNumber(s)
    /\ IsDigit(s[1])
    /\ ~HasLeadingZero(s)
    /\ Find(s, ".") # 0 => s[Len(s)] \notin {"0", "."}
    /\ (\A i \in 1..Len(s) : s[i] \in {"0", "."}) => s = <<"0">>

\* C9: every value canonicalize_decimal returns is a canonical decimal
\* numeral (digits with at most one decimal point, no sign, no exponent, no
\* leading zero but a bare "0" or a "0." prefix, no trailing fractional zero,
\* no dangling point, "0" for zero), and every input that is no plain number
\* (the empty string, letters, words such as "NaN") is rejected.
C9_OutputIsCanonicalNumeral ==
    pc = "called" =>
        /\ decOut.ok => decOut.val.t = "string" /\ IsCanonicalNumeral(decOut.val.v)
        /\ ~IsPlainNumber(DecText(decIn)) => ~decOut.ok

\* The input without surrounding whitespace, trailing fractional zeros and
\* a dangling decimal point.
StripDecimal(s) ==
    IF Find(Trim(s), ".") = 0 THEN Trim(s)
    ELSE TrimEndMatches(TrimEndMatches(Trim(s), "0"), ".")

\* The text with "0" written for a missing integer part.
WithIntegerPart(s) ==
    IF s = <<>> THEN <<"0">>
    ELSE IF s[1] = "." THEN <<"0">> \o s
    ELSE s

\* An accepted decimal string: digits with at most one decimal point,
\* possibly surrounded by whitespace.
AcceptedDecimalString ==
    /\ pc = "called"
    /\ decIn.t = "string"
    /\ IsPlainNumber(Trim(decIn.v))
    /\ decOut.ok

\* C10, as amended: for every decimal string canonicalize_decimal accepts,
\* the output denotes the same numeric value as the input, and is the input
\* with surrounding whitespace, trailing fractional zeros and a dangling
\* decimal point removed and with "0" written for a missing integer part
\* (".5" gives "0.5", ".0" gives "0").
C10_DecimalRoundTrip ==
    AcceptedDecimalString =>
        /\ ParseF64(decOut.val.v).cls = "fin"
        /\ ParseF64(decOut.val.v) = ParseF64(Trim(decIn.v))
        /\ decOut.val.v = WithIntegerPart(StripDecimal(decIn.v))

\* A string with trailing zeros has been accepted and shortened.
C10_Witness ==
    /\ AcceptedDecimalString
    /\ decIn.v = <<"1",".","5","0","0","0","0">>
    /\ decOut.val.v = <<"1",".","5">>

\* C10, as stated: the output is the input with nothing but surrounding
\* whitespace, trailing fractional zeros and a dangling decimal point removed.
C10_OnlyRemovals ==
    AcceptedDecimalString => decOut.val.v = StripDecimal(decIn.v)

(***************************************************************************)
(* normalize_timestamp                                                     *)
(***************************************************************************)

TimestampCalled == pc = "called" /\ callee = "normalize_timestamp"

AllDigits(s) == \A i \in 1..Len(s) : IsDigit(s[i])

\* YYYY-MM-DDTHH:MM:SS with digit fields
IsWholeSecondPrefix(p) ==
    /\ Len(p) = 19
    /\ \A i \in {1, 2, 3, 4, 6, 7, 9, 10, 12, 13, 15, 16, 18, 19} : IsDigit(p[i])
    /\ p[5] = "-" /\ p[8] = "-" /\ p[11] = "T" /\ p[14] = ":" /\ p[17] = ":"

\* YYYY-MM-DDTHH:MM:SSZ with digit fields
IsCanonicalTimestamp(s) ==
    Len(s) = 20 /\ IsWholeSecondPrefix(SubSeq(s, 1, 19)) /\ s[20] = "Z"

\* s carries a timezone offset, +hh:mm or -hh:mm, somewhere.
HasOffset(s) ==
    \E i \in 1..Len(s) :
        /\ i + 5 <= Len(s)
        /\ s[i] \in {"+", "-"}
        /\ IsDigit(s[i + 1]) /\ IsDigit(s[i + 2]) /\ s[i + 3] = ":"
        /\ IsDigit(s[i + 4]) /\ IsDigit(s[i + 5])

\* s is <whole-second prefix>.<fraction>Z with a fraction of digits.
HasFraction(s) ==
    /\ Count(s, ".") = 1
    /\ EndsWith(s, "Z")
    /\ IsWholeSecondPrefix(SubSeq(s, 1, Find(s, ".") - 1))
    /\ Find(s, ".") + 1 < Len(s)
    /\ AllDigits(SubSeq(s, Find(s, ".") + 1, Len(s) - 1))

\* C11: normalize_timestamp returns, for an input <whole-second prefix>.<fraction>Z
\* with exactly one '.', the whole-second prefix followed by 'Z', and rejects
\* an input with more than one '.'.
C11_FractionStripped ==
    TimestampCalled =>
        /\ HasFraction(arg.v) =>
               ret = Ok(Str(SubSeq(arg.v, 1, Find(arg.v, ".") - 1) \o <<"Z">>))
        /\ Count(arg.v, ".") > 1 => ~ret.ok

\* C12: normalize_timestamp rejects every timestamp that does not end in 'Z'
\* (surrounding whitespace aside) and every timestamp that carries a timezone
\* offset +hh:mm or -hh:mm, wherever the offset stands.
C12_RejectsNoZAndOffsets ==
    TimestampCalled =>
        (~EndsWith(Trim(arg.v), "Z") \/ HasOffset(arg.v) => ~ret.ok)

\* C13: every timestamp normalize_timestamp returns has exactly 20 characters,
\* ends in 'Z', has its single 'T' after a 10-character date, and has no
\* fractional seconds and no timezone offset.
C13_ReturnedTimestampShape ==
    TimestampCalled /\ ret.ok =>
        /\ Len(ret.val.v) = 20
        /\ ret.val.v[20] = "Z"
        /\ ret.val.v[11] = "T"
        /\ Count(ret.val.v, "T") = 1
        /\ ~Contains(ret.val.v, ".")
        /\ ~HasOffset(ret.val.v)

\* C14: normalize_timestamp returns every string YYYY-MM-DDTHH:MM:SSZ with
\* digit fields unchanged, whatever its four-digit year; in particular a
\* timestamp it returned is returned unchanged when normalized again.
C14_CanonicalTimestampUnchanged ==
    TimestampCalled =>
        /\ IsCanonicalTimestamp(arg.v) => ret = Ok(arg)
        /\ pc = "called" /\ ret.ok /\ ret.val = arg => NormalizeTimestamp(ret.val.v) = ret

(***************************************************************************)
(* venue_allowlist                                                         *)
(***************************************************************************)

ConstraintsCalled == pc = "called" /\ callee = "canonicalize_constraints"

\* The entries of the venue_allowlist handed in, none when it is absent.
SuppliedVenues ==
    IF arg # Null /\ IsArrAt(arg.v, K.venue_allowlist)
    THEN Get(arg.v, K.venue_allowlist).v ELSE <<>>

\* The canonical venue_allowlist returned.
ReturnedVenues == Get(ret.val.v, K.venue_allowlist).v

\* C15: the canonical venue_allowlist is strictly ascending (sorted, without
\* duplicates), its entries are trimmed and lowercase, and its set of entries
\* is the set of the trimmed, lowercased entries handed in; an absent list
\* gives the empty list.
C15_VenueAllowlistCanonical ==
    ConstraintsCalled =>
        /\ ret.ok
        /\ \A i \in 1..(Len(ReturnedVenues) - 1) :
               StrLess(ReturnedVenues[i].v, ReturnedVenues[i + 1].v)
        /\ \A i \in 1..Len(ReturnedVenues) :
               /\ ReturnedVenues[i].t = "string"
               /\ Trim(ReturnedVenues[i].v) = ReturnedVenues[i].v
               /\ ToLowercase(ReturnedVenues[i].v) = ReturnedVenues[i].v
        /\ {ReturnedVenues[i].v : i \in 1..Len(ReturnedVenues)}
              = {ToLowercase(Trim(SuppliedVenues[j].v)) :
                    j \in {j \in 1..Len(SuppliedVenues) : SuppliedVenues[j].t = "string"}}
        /\ (arg = Null \/ ~HasKey(arg.v, K.venue_allowlist)) => ReturnedVenues = <<>>

\* A list with entries that differ only in case and whitespace came back
\* shorter and reordered.
C15_Witness ==
    /\ ConstraintsCalled
    /\ Len(SuppliedVenues) = MaxVenues
    /\ SuppliedVenues[1].v = <<"B">>
    /\ SuppliedVenues[2].v = <<" ", "b", " ">>
    /\ SuppliedVenues[3].v = <<"a">>
    /\ ReturnedVenues = <<Str(<<"a">>), Str(<<"b">>)>>

(***************************************************************************)
(* compute_hash                                                            *)
(***************************************************************************)

HashCalled == pc = "called" /\ callee = "compute_hash"

\* C16: compute_hash returns exactly 64 characters, each a lowercase
\* hexadecimal digit; it is the SHA-256 digest (that of "abc" and of the empty
\* text are the published ones), so equal texts have equal digests, and the
\* canonical JSON of an accepted intent is hashed to this shape.
C16_DigestShape ==
    HashCalled =>
        /\ ret.ok
        /\ Len(ret.val.v) = 64
        /\ \A i \in 1..64 :
               ret.val.v[i] \in {"0","1","2","3","4","5","6","7","8","9","a","b","c","d","e","f"}
        /\ arg.v = <<"a","b","c">> =>
               ret.val.v = <<"b","a","7","8","1","6","b","f","8","f","0","1","c","f","e","a","4","1","4","1","4","0","d","e","5","d","a","e","2","2","2","3","b","0","0","3","6","1","a","3","9","6","1","7","7","a","9","c","b","4","1","0","f","f","6","1","f","2","0","0","1","5","a","d">>
        /\ arg.v = <<>> =>
               ret.val.v = <<"e","3","b","0","c","4","4","2","9","8","f","c","1","c","1","4","9","a","f","b","f","4","c","8","9","9","6","f","b","9","2","4","2","7","a","e","4","1","e","4","6","4","9","b","9","3","4","c","a","4","9","5","9","9","1","b","7","8","5","2","b","8","5","5">>

\* The canonical JSON of the intent of test_full_canonicalization was hashed.
C16_Witness ==
    /\ HashCalled
    /\ CanonicalizeIntent(BaseOption).ok
    /\ arg.v = ToJsonString(CanonicalizeIntent(BaseOption).val)
    /\ Len(ret.val.v) = 64

(***************************************************************************)
(* Key sets of the nested objects                                          *)
(***************************************************************************)

\* The document has a derivatives object.
HasDerivatives == doc.t = "object" /\ IsObjAt(doc.v, K.derivatives)

\* The derivatives object lacks a mandatory key or has a key outside the
\* eight allowed ones.
DerivativesKeysViolated ==
    \/ \E k \in {K.collateral, K.instrument, K.side, K.size, K.symbol} :
          k \notin KeySet(DocDerivatives)
    \/ \E k \in KeySet(DocDerivatives) :
          k \notin {K.collateral, K.constraints, K.instrument, K.leverage,
                    K.option, K.side, K.size, K.symbol}

CollateralKeysViolated ==
    /\ IsObjAt(DocDerivatives, K.collateral)
    /\ KeySet(Get(DocDerivatives, K.collateral).v) # {K.chain, K.token}

ConstraintsKeysViolated ==
    /\ IsObjAt(DocDerivatives, K.constraints)
    /\ \E k \in KeySet(DocConstraints) :
          k \notin {K.max_slippage_bps, K.max_funding_bps_8h, K.max_fee_bps, K.venue_allowlist}

OptionKeysViolated ==
    /\ NamesOptionInstrument(doc)
    /\ IsObjAt(DocDerivatives, K.option)
    /\ KeySet(Get(DocDerivatives, K.option).v) # {K.expiry, K.kind, K.strike}

\* C17: a document is rejected when its derivatives object lacks one of
\* collateral, instrument, side, size, symbol or has a key outside the eight
\* allowed ones, when its collateral key set is not {chain, token}, when its
\* constraints object has a key outside the four allowed ones, and, for an
\* option instrument, when its option key set is not {expiry, kind, strike}.
C17_NestedKeySetsEnforced ==
    (pc = "called" /\ HasDerivatives
        /\ (DerivativesKeysViolated \/ CollateralKeysViolated
              \/ ConstraintsKeysViolated \/ OptionKeysViolated))
        => (~result.ok /\ digest.panic # <<>>)

\* A document whose only defect is an unknown key in constraints (as in
\* test_unknown_constraint_field) has been rejected for it.
C17_Witness ==
    /\ pc = "called"
    /\ HasDerivatives
    /\ ConstraintsKeysViolated
    /\ ~DerivativesKeysViolated /\ ~CollateralKeysViolated /\ ~OptionKeysViolated
    /\ ~result.ok
    /\ result.err[1] = "Unknown constraint field"

(***************************************************************************)
(* Enumerated and case-folded fields                                       *)
(***************************************************************************)

\* The text with surrounding whitespace removed and its letters in lower
\* case, in upper case.
TrimmedLower(s) == [i \in 1..Len(Trim(s)) |-> LowerChar[Trim(s)[i]]]

TrimmedUpper(s) == [i \in 1..Len(Trim(s)) |-> UpperChar[Trim(s)[i]]]

\* Document d with the six case-insensitive fields in lower case.
RECURSIVE ApplyEdits(_, _)
ApplyEdits(d, es) ==
    IF es = <<>> THEN d ELSE ApplyEdits(ApplyEdit(d, Head(es)), Tail(es))

CaseFolded(d) ==
    ApplyEdits(d, <<RecaseAt(K.derivatives, K.instrument, FALSE),
                    RecaseAt(K.derivatives, K.side, FALSE),
                    RecaseAt(K.derivatives, K.symbol, FALSE),
                    RecaseAt(K.collateral, K.chain, FALSE),
                    RecaseAt(K.option, K.kind, FALSE),
                    RecaseAt(<<>>, K.signer_id, FALSE)>>)

\* What an accepted call h returned for the fields of its document: each is
\* the trimmed, case-folded member of its set.
EnumeratedFieldsOf(h, deriv, canon) ==
    /\ Get(canon, K.instrument).v = TrimmedLower(Get(deriv, K.instrument).v)
    /\ Get(canon, K.instrument).v \in {S.perp, S.option}
    /\ Get(canon, K.side).v = TrimmedLower(Get(deriv, K.side).v)
    /\ Get(canon, K.side).v \in {<<"l","o","n","g">>, <<"s","h","o","r","t">>,
                                  <<"b","u","y">>, <<"s","e","l","l">>}
    /\ Get(Get(canon, K.collateral).v, K.chain).v
          = TrimmedLower(Get(Get(deriv, K.collateral).v, K.chain).v)
    /\ Get(Get(canon, K.collateral).v, K.chain).v
          \in {<<"n","e","a","r">>, <<"e","t","h","e","r","e","u","m">>,
               <<"a","r","b","i","t","r","u","m">>, <<"b","a","s","e">>,
               <<"s","o","l","a","n","a">>}
    /\ Get(canon, K.instrument).v = S.option =>
          /\ Get(Get(canon, K.option).v, K.kind).v
                = TrimmedLower(Get(Get(deriv, K.option).v, K.kind).v)
          /\ Get(Get(canon, K.option).v, K.kind).v \in {<<"c","a","l","l">>, <<"p","u","t">>}
    /\ Get(canon, K.symbol).v = TrimmedUpper(Get(deriv, K.symbol).v)
    /\ \E i \in 1..Len(Get(canon, K.symbol).v) : Get(canon, K.symbol).v[i] = "-"
    /\ Get(h.result.val.v, K.signer_id).v = TrimmedLower(Get(h.doc.v, K.signer_id).v)

\* C18: in every accepted document instrument, side, collateral chain and
\* option kind are strings whose trimmed, lowercased value is in {perp,
\* option}, {long, short, buy, sell}, {near, ethereum, arbitrum, base, solana}
\* and {call, put}, and the canonical value is that member; the canonical
\* symbol is the trimmed, uppercased symbol and has a hyphen; the canonical
\* signer_id is the trimmed, lowercased one.  Two documents that differ only
\* in the letter case of these fields are both rejected or are both accepted
\* with the same canonical tree and digest.
C18_EnumeratedFieldsNormalized ==
    /\ \A i \in 1..Len(history) :
          history[i].result.ok =>
              EnumeratedFieldsOf(history[i],
                                 Get(history[i].doc.v, K.derivatives).v,
                                 Get(history[i].result.val.v, K.derivatives).v)
    /\ \A i, j \in 1..Len(history) :
          CaseFolded(history[i].doc) = CaseFolded(history[j].doc)
              => /\ history[i].result.ok = history[j].result.ok
                 /\ history[i].result.val = history[j].result.val
                 /\ history[i].digest = history[j].digest

\* An accepted document was submitted again with the letters of one of the
\* fields in the other case, and was accepted.
C18_Witness ==
    \E i, j \in 1..Len(history) :
        /\ i < j
        /\ history[i].doc # history[j].doc
        /\ CaseFolded(history[i].doc) = CaseFolded(history[j].doc)
        /\ history[i].result.ok
        /\ history[j].result.ok

(***************************************************************************)
(* normalize_nonce                                                         *)
(***************************************************************************)

NonceCalled == pc = "called" /\ callee = "normalize_nonce"

\* The value is an integer number.
IsInteger(v) == v.t = "number" /\ v.v.k \in {"posint", "negint"}

\* C19: normalize_nonce returns a string trimmed and an integer in its
\* decimal form, rejects a value of every other kind (boolean, null, list,
\* object, non-integer number), and returns nothing but strings.
C19_NonceStringOrInteger ==
    NonceCalled =>
        /\ arg.t = "string" => ret = Ok(Str(Trim(arg.v)))
        /\ IsInteger(arg) =>
               ret = Ok(Str(IF arg.v.i < 0 THEN <<"-">> \o NatToString(0 - arg.v.i)
                            ELSE NatToString(arg.v.i)))
        /\ (arg.t # "string" /\ ~IsInteger(arg)) => ~ret.ok
        /\ ret.ok => ret.val.t = "string"

(***************************************************************************)
(* Order of the errors                                                     *)
(***************************************************************************)

\* The errors the invalid root-level fields of document d give, one for each
\* of version, intent_type, deadline, nonce and signer_id that is invalid, and
\* one for a derivatives that is no object.
RootFieldErrors(d) ==
    (IF ~IsObjAt(d.v, K.derivatives) THEN {Err("Missing or invalid derivatives", <<>>).err}
     ELSE {})
    \cup
    (IF ~IsStrAt(d.v, K.version) THEN {Err("Missing or invalid version", <<>>).err}
     ELSE IF Get(d.v, K.version).v # S.v1_0_0
     THEN {Err("Invalid version", Get(d.v, K.version).v).err} ELSE {})
    \cup
    (IF ~IsStrAt(d.v, K.intent_type) THEN {Err("Missing or invalid intent_type", <<>>).err}
     ELSE IF Get(d.v, K.intent_type).v # S.derivatives
     THEN {Err("Invalid intent_type", Get(d.v, K.intent_type).v).err} ELSE {})
    \cup
    (IF ~IsStrAt(d.v, K.deadline) THEN {Err("Missing deadline", <<>>).err}
     ELSE IF ~NormalizeTimestamp(Get(d.v, K.deadline).v).ok
     THEN {NormalizeTimestamp(Get(d.v, K.deadline).v).err} ELSE {})
    \cup
    (IF Get(d.v, K.nonce).t \notin {"string", "number"}
     THEN {Err("Nonce must be string or number", <<>>).err} ELSE {})
    \cup
    (IF ~IsStrAt(d.v, K.signer_id) THEN {Err("Missing signer_id", <<>>).err}
     ELSE IF ~NormalizeSignerId(Get(d.v, K.signer_id).v).ok
     THEN {NormalizeSignerId(Get(d.v, K.signer_id).v).err} ELSE {})

\* C20: canonicalize_intent returns a complete canonical tree or one error and
\* no tree, and for a document with the six root keys and an invalid
\* root-level field (version, intent_type, deadline, nonce, signer_id) the
\* error is that of a root-level field, whatever is wrong inside derivatives.
C20_RootErrorsFirst ==
    pc = "called" =>
        /\ result.ok => (result.err = <<>> /\ KeySet(result.val.v) = RootFieldNames)
        /\ ~result.ok => result.val = Null
        /\ (doc.t = "object" /\ KeySet(doc.v) = RootFieldNames /\ RootFieldErrors(doc) # {})
              => (~result.ok /\ result.err \in RootFieldErrors(doc))

(***************************************************************************)
(* The simulation gate of the contract                                     *)
(***************************************************************************)

\* The step is a call of the method.
Calls(method) == call'.seq = call.seq + 1 /\ call'.method = method

\* An execution log stored by log_execution (execute_intents stores its own).
LoggedBySolver(log) == "solver_id" \in DOMAIN log

\* C21: log_execution(h, log) stores the log only if the simulation record
\* now stored under h has success = true; with no record under h, or with a
\* record whose success is false, the call fails and execution_logs stays as
\* it was.  Hence every log stored by log_execution has a simulation record
\* under its hash.
C21_SimulationGate ==
    /\ [][Calls("log_execution") =>
            LET h == call'.args.intent_hash
                successful == /\ h \in DOMAIN contract.simulation_results
                              /\ contract.simulation_results[h].success
            IN  /\ outcome'.panic = <<>> => successful
                /\ contract'.execution_logs # contract.execution_logs => successful
                /\ ~successful =>
                      /\ outcome'.panic # <<>>
                      /\ contract'.execution_logs = contract.execution_logs]_vars
    /\ [](\A h \in DOMAIN contract.execution_logs :
              LoggedBySolver(contract.execution_logs[h]) =>
                  h \in DOMAIN contract.simulation_results)

\* log_execution has stored a log after a successful record_simulation, and
\* has been refused after an unsuccessful one.
C21_Witness ==
    /\ call.method = "log_execution"
    /\ outcome.panic = <<>>
    /\ contract.execution_logs[call.args.intent_hash] = call.args.log
    /\ contract.simulation_results[call.args.intent_hash].written_by = "record_simulation"
    /\ \E h \in DOMAIN contract.simulation_results :
          /\ ~contract.simulation_results[h].success
          /\ h \notin DOMAIN contract.execution_logs

\* The record is older than 300 seconds in the block stamped now.
OlderThanWindow(now, timestamp) ==
    \/ now[1] - timestamp[1] > 300
    \/ (now[1] - timestamp[1] = 300 /\ now[2] > timestamp[2])

\* What execute_intents owes an intent with hash h, by the records stored.
Verdict(c, now, h) ==
    IF h \notin DOMAIN c.simulation_results THEN "SIMULATION_REQUIRED"
    ELSE IF OlderThanWindow(now, c.simulation_results[h].timestamp) THEN "SIMULATION_EXPIRED"
    ELSE IF ComputeSimulationHash(h, c.simulation_results[h])
                # c.simulation_results[h].simulation_hash
    THEN "SIMULATION_HASH_MISMATCH"
    ELSE "executed"

\* The hashes of the intents of the batch of the call made in this step.
BatchHashes == [i \in 1..Len(call'.args.intents) |-> intent_hash_of[call'.args.intents[i]].val]

Rejected(h) == Verdict(contract, block_timestamp, h) # "executed"

Accepted(h) == Verdict(contract, block_timestamp, h) = "executed"

C22_SeenRequired ==
    /\ call.method = "execute_intents" /\ outcome.panic = <<>>
    /\ \E i \in 1..Len(outcome.val.failed) : outcome.val.failed[i].error = "SIMULATION_REQUIRED"

C22_SeenExpired ==
    /\ call.method = "execute_intents" /\ outcome.panic = <<>>
    /\ \E i \in 1..Len(outcome.val.failed) : outcome.val.failed[i].error = "SIMULATION_EXPIRED"

(***************************************************************************)
(* Guardrails and configuration                                            *)
(***************************************************************************)

\* The step is a call of the method that returned.
Returned_(method) == Calls(method) /\ outcome'.panic = <<>>

\* C23: get_guardrails(symbol, account) returns the guardrails last set for
\* the account when an account is given and has an entry, also when the
\* symbol has an entry too; otherwise those last set for the symbol when a
\* symbol is given and has an entry; otherwise the default guardrails.  A
\* set_user_guardrails or set_symbol_guardrails call that returns makes its
\* argument the entry, and no other call changes an entry.
C23_GuardrailPrecedence ==
    /\ [](call.method = "get_guardrails" =>
            outcome.val =
                IF call.args.account # None
                      /\ call.args.account[1] \in DOMAIN contract.user_guardrails
                THEN contract.user_guardrails[call.args.account[1]]
                ELSE IF call.args.symbol # None
                      /\ call.args.symbol[1] \in DOMAIN contract.symbol_guardrails
                THEN contract.symbol_guardrails[call.args.symbol[1]]
                ELSE contract.default_guardrails)
    /\ [][/\ Returned_("set_user_guardrails") =>
               /\ contract'.user_guardrails[call'.args.account] = call'.args.guardrails
               /\ \A a \in DOMAIN contract.user_guardrails \ {call'.args.account} :
                     contract'.user_guardrails[a] = contract.user_guardrails[a]
          /\ Returned_("set_symbol_guardrails") =>
               /\ contract'.symbol_guardrails[call'.args.symbol] = call'.args.guardrails
               /\ \A y \in DOMAIN contract.symbol_guardrails \ {call'.args.symbol} :
                     contract'.symbol_guardrails[y] = contract.symbol_guardrails[y]
          /\ ~Returned_("set_user_guardrails") =>
               contract'.user_guardrails = contract.user_guardrails
          /\ ~Returned_("set_symbol_guardrails") =>
               contract'.symbol_guardrails = contract.symbol_guardrails
          /\ contract'.default_guardrails = contract.default_guardrails]_vars

\* get_guardrails was asked for a symbol and an account that both have an
\* entry, the two differ, and it returned the account's.
C23_Witness ==
    /\ call.method = "get_guardrails"
    /\ call.args.account # None
    /\ call.args.symbol # None
    /\ call.args.account[1] \in DOMAIN contract.user_guardrails
    /\ call.args.symbol[1] \in DOMAIN contract.symbol_guardrails
    /\ contract.user_guardrails[call.args.account[1]]
          # contract.symbol_guardrails[call.args.symbol[1]]
    /\ outcome.val = contract.user_guardrails[call.args.account[1]]

(***************************************************************************)
(* The canonicalizer applied to its own output                             *)
(***************************************************************************)

\* The second call of a behaviour was given the tree the first returned.
Resubmitted ==
    /\ Len(history) = 2
    /\ history[1].result.ok
    /\ history[2].doc = history[1].result.val

\* C24: canonicalize_intent given a tree it returned (with the explicit
\* option: null of a perp and the defaults filled in) succeeds and returns
\* the same tree, and compute_intent_hash gives the same digest; so every
\* normalized field of the tree is left as it is.
C24_IdempotentOnOutput ==
    Resubmitted =>
        /\ history[2].result.ok
        /\ history[2].result.val = history[2].doc
        /\ history[2].result = history[1].result
        /\ history[2].digest = history[1].digest

\* A perp document without constraints, leverage or option, whose fields
\* were not in canonical form, was canonicalized and its tree handed in again.
C24_Witness ==
    /\ Resubmitted
    /\ history[1].doc # history[1].result.val
    /\ ~HasKey(Get(history[1].doc.v, K.derivatives).v, K.option)
    /\ ~HasKey(Get(history[1].doc.v, K.derivatives).v, K.constraints)
    /\ Get(Get(history[2].doc.v, K.derivatives).v, K.option) = Null
    /\ history[2].result.ok

(***************************************************************************)
(* Bounds of the constraints                                               *)
(***************************************************************************)

\* The document has a constraints object with a member under the key.
SuppliesBps(key) ==
    /\ HasDerivatives
    /\ IsObjAt(DocDerivatives, K.constraints)
    /\ HasKey(DocConstraints, key)

\* The member is an integer above the limit; an integer beyond u64 reaches
\* the canonicalizer as BeyondU64.
LargerInteger(key, limit) ==
    /\ SuppliesBps(key)
    /\ \/ Get(DocConstraints, key) = BeyondU64
       \/ /\ Get(DocConstraints, key).t = "number"
          /\ Get(DocConstraints, key).v.k = "posint"
          /\ Get(DocConstraints, key).v.i > limit

CanonBps(key) == Get(Get(CanonDerivatives, K.constraints).v, key).v.i

\* C25: every canonical constraints object has max_fee_bps <= 100,
\* max_funding_bps_8h <= 100 and max_slippage_bps <= 1000; a document is not
\* rejected for a value within these bounds, the bounds included; and a
\* document that supplies a larger integer for one of the three is rejected.
C25_ConstraintBounds ==
    pc = "called" =>
        /\ result.ok =>
              /\ CanonBps(K.max_fee_bps) <= 100
              /\ CanonBps(K.max_funding_bps_8h) <= 100
              /\ CanonBps(K.max_slippage_bps) <= 1000
        /\ (~result.ok /\ result.err[1] = "max_fee_bps exceeds 100")
              => LargerInteger(K.max_fee_bps, 100)
        /\ (~result.ok /\ result.err[1] = "max_funding_bps_8h exceeds 100")
              => LargerInteger(K.max_funding_bps_8h, 100)
        /\ (~result.ok /\ result.err[1] = "max_slippage_bps exceeds 1000")
              => LargerInteger(K.max_slippage_bps, 1000)
        /\ (\/ LargerInteger(K.max_fee_bps, 100)
            \/ LargerInteger(K.max_funding_bps_8h, 100)
            \/ LargerInteger(K.max_slippage_bps, 1000)) => ~result.ok

(***************************************************************************)
(* The freshness window                                                    *)
(***************************************************************************)

\* The error codes execute_intents reported for the hash in this step.
ErrorsFor(h) ==
    {outcome'.val.failed[i].error :
        i \in {j \in 1..Len(outcome'.val.failed) : outcome'.val.failed[j].intent_hash = h}}

ExecutedHashes == {outcome'.val.executed[i] : i \in 1..Len(outcome'.val.executed)}

\* C26: in execute_intents an intent whose simulation record has an age
\* (block timestamp minus the record's timestamp) of at most 300 seconds, 300
\* seconds itself included, passes the freshness check; an intent whose
\* record is older is never executed, whatever else is stored; and no stored
\* record is stamped later than the current block, so the age is never
\* negative.
C26_FreshnessBoundary ==
    /\ [][(Calls("execute_intents") /\ outcome'.panic = <<>>) =>
            \A i \in 1..Len(BatchHashes) :
                BatchHashes[i] \in DOMAIN contract.simulation_results =>
                    IF OlderThanWindow(block_timestamp,
                                       contract.simulation_results[BatchHashes[i]].timestamp)
                    THEN /\ BatchHashes[i] \notin ExecutedHashes
                         /\ ErrorsFor(BatchHashes[i]) = {"SIMULATION_EXPIRED"}
                    ELSE "SIMULATION_EXPIRED" \notin ErrorsFor(BatchHashes[i])]_vars
    /\ [](\A h \in DOMAIN contract.simulation_results :
             \/ contract.simulation_results[h].timestamp[1] < block_timestamp[1]
             \/ /\ contract.simulation_results[h].timestamp[1] = block_timestamp[1]
                /\ contract.simulation_results[h].timestamp[2] <= block_timestamp[2])

\* An intent was executed exactly 300 seconds after its simulation.
C26_Witness ==
    /\ call.method = "execute_intents"
    /\ outcome.panic = <<>>
    /\ \E i \in 1..Len(outcome.val.executed) :
          /\ contract.simulation_results[outcome.val.executed[i]].timestamp[1] + 300
                = block_timestamp[1]
          /\ contract.simulation_results[outcome.val.executed[i]].timestamp[2]
                = block_timestamp[2]
          /\ contract.execution_logs[outcome.val.executed[i]].timestamps.executed
                = block_timestamp

\* An intent was refused one nanosecond later.
C26_SeenJustExpired ==
    /\ call.method = "execute_intents"
    /\ outcome.panic = <<>>
    /\ \E i \in 1..Len(outcome.val.failed) :
          /\ outcome.val.failed[i].error = "SIMULATION_EXPIRED"
          /\ contract.simulation_results[outcome.val.failed[i].intent_hash].timestamp[1] + 300
                = block_timestamp[1]
          /\ contract.simulation_results[outcome.val.failed[i].intent_hash].timestamp[2] + 1
                = block_timestamp[2]

(***************************************************************************)
(* Who may configure                                                       *)
(***************************************************************************)

ConfigMethods ==
    {"add_symbol_config", "add_venue_config", "set_user_guardrails",
     "set_symbol_guardrails", "update_fee_config"}

\* The state the configuration methods write.
Configuration(c) ==
    <<c.symbol_configs, c.venue_configs, c.venues_by_symbol, c.user_guardrails,
      c.symbol_guardrails, c.fee_config>>

\* C27: add_symbol_config, add_venue_config, set_user_guardrails,
\* set_symbol_guardrails and update_fee_config change state only when the
\* caller is the account stored in fee_config.treasury at the call; called by
\* another account they fail and leave the configuration as it was.
\* update_fee_config also fails for protocol_fee_bps > 1000 and for
\* max_fee_bps > 1000, and once it has replaced the treasury the former
\* treasury is refused like any other account.
C27_TreasuryOnly ==
    /\ [][(call'.seq = call.seq + 1 /\ call'.method \in ConfigMethods) =>
            /\ call'.predecessor # contract.fee_config.treasury =>
                  /\ outcome'.panic # <<>>
                  /\ Configuration(contract') = Configuration(contract)
            /\ contract' # contract =>
                  /\ call'.predecessor = contract.fee_config.treasury
                  /\ outcome'.panic = <<>>
            /\ (/\ call'.method = "update_fee_config"
                /\ \/ call'.args.config.protocol_fee_bps > 1000
                   \/ call'.args.config.max_fee_bps > 1000) =>
                  /\ outcome'.panic # <<>>
                  /\ contract' = contract
            /\ (/\ call'.method = "update_fee_config"
                /\ outcome'.panic = <<>>) =>
                  contract'.fee_config = call'.args.config]_vars
    /\ [](/\ contract.fee_config.protocol_fee_bps <= 1000
          /\ contract.fee_config.max_fee_bps <= 1000)

\* update_fee_config has made alice.near the treasury, and the account the
\* contract was deployed with has been refused since.
C27_Witness ==
    /\ call.method \in ConfigMethods
    /\ call.predecessor = Deployed.fee_config.treasury
    /\ contract.fee_config.treasury = "alice.near"
    /\ outcome.panic # <<>>
    /\ contract.fee_config.protocol_fee_bps = 1000
    /\ contract.fee_config.max_fee_bps = 1000

(***************************************************************************)
(* The option of a perp                                                    *)
(***************************************************************************)

\* The document's instrument reads "perp".
PerpDoc ==
    /\ HasDerivatives
    /\ IsStrAt(DocDerivatives, K.instrument)
    /\ ToLowercase(Trim(Get(DocDerivatives, K.instrument).v)) = S.perp

\* The document without its derivatives.option.
WithoutOption(d) == ApplyEdit(d, RemoveAt(K.derivatives, K.option))

\* C28: for a perp the input option is ignored without validation.  A perp
\* document with a derivatives.option, whatever its value, is accepted iff
\* the document without it is, and when accepted has the same canonical tree,
\* with option null, and the same digest; so any two perp documents that
\* differ only in the option agree.
C28_PerpIgnoresOption ==
    (pc = "called" /\ PerpDoc /\ HasKey(DocDerivatives, K.option)) =>
        /\ result.ok = CanonicalizeIntent(WithoutOption(doc)).ok
        /\ result.ok =>
              /\ result.val = CanonicalizeIntent(WithoutOption(doc)).val
              /\ Get(CanonDerivatives, K.option) = Null
              /\ digest = ComputeIntentHash(WithoutOption(doc))

\* A perp whose option is the string "x" was accepted.
C28_Witness ==
    /\ pc = "called"
    /\ PerpDoc
    /\ HasKey(DocDerivatives, K.option)
    /\ Get(DocDerivatives, K.option) = Str(<<"x">>)
    /\ result.ok
    /\ Get(CanonDerivatives, K.option) = Null
    /\ digest.panic = <<>>

\* So were a perp with a well-formed option and one with an option object
\* that lacks its strike.
C28_SeenOptionObjects ==
    /\ pc = "called"
    /\ PerpDoc
    /\ IsObjAt(DocDerivatives, K.option)
    /\ result.ok

(***************************************************************************)
(* Records written by simulate_intents                                     *)
(***************************************************************************)

BySimulateIntents(c, h) ==
    /\ h \in DOMAIN c.simulation_results
    /\ c.simulation_results[h].written_by = "simulate_intents"

Occurrences(seq, x) == Cardinality({i \in 1..Len(seq) : seq[i] = x})

\* The log was stored by execute_intents.
LoggedByExecute(log) == "timestamps" \in DOMAIN log

=============================================================================
